---- MODULE Spec2Model ----
(***************************************************************************)
(* Kids QR-code media player: the scan router (player.handle_scan), the    *)
(* keycode decoder (scanner._read_loop), the watchers and the orchestrator *)
(* (player.run), as state machines over one set of variables.              *)
(*                                                                         *)
(* Text is a sequence of one-character strings, so that upper-casing,      *)
(* prefix matching, substring tests and pathlib's stem/suffix split are    *)
(* computed rather than assumed.  Time is counted in whole seconds.        *)
(***************************************************************************)
EXTENDS Integers, Sequences, FiniteSets, TLC

VARIABLES
    _last_scan_text,    \* player.py:36
    _last_scan_time,    \* player.py:37
    _shutting_down,     \* player.py:40  (the ShutdownFlag)
    monotonic,          \* the value time.monotonic() returns
    mediaDir,           \* the entries of MEDIA_DIR
    calls,              \* the control-protocol calls issued by the latest step
    log,                \* the latest log record, <<message, argument>>
    buffer,             \* scanner.py:108  _read_loop's line buffer
    shift,              \* scanner.py:109  _read_loop's shift state
    delivered,          \* the lines the latest event passed to the callback
    seg,                \* history: the events read since the previous Enter
                        \* key-down, that Enter included once it has arrived
    segShift,           \* history: whether a shift key was last seen down or
                        \* held when that run of events began
    left_over,          \* history: the buffer the previous reading session
                        \* ended with
    _keyboard_mode,     \* player.py:307  the --keyboard switch
    runPc,              \* where run() stands
    polls,              \* run(): iterations of the socket wait so far
    task,               \* the state of each task run() creates
    watch,              \* the state of each _watch_one task, by keyboard
    teardowns,          \* history: how many times run() reached its teardown
    mpv_proc,           \* the player process: "running" or "exited"
    signalled,          \* what run() sent the player process
    socket_exists,      \* whether the control socket path exists
    keyboards,          \* the attached keyboards that are not the scanner
    scanner_attached,   \* whether the scanner device is attached
    grabbed,            \* whether read_scans holds the scanner grabbed
    splash_showing,     \* player.py:125  idle_watcher's local
    last_minute,        \* player.py:126  idle_watcher's local
    minute,             \* the value datetime.now().minute returns
    was_idle,           \* what the latest is_idle() call returned
    shown_at,           \* history: the minute of idle_watcher's latest
                        \* idle-screen load, -1 before the first
    in_call,            \* the mpv_control helper called latest, "none" before
    connections,        \* the connections to the control socket now open
    reply,              \* what the far end did in the latest exchange
    result,             \* what that helper gave its caller: a Python value,
                        \* the exception it raised, "pending" while it runs
    listed,             \* the input devices list_devices() returns now
    watched,            \* the state of the _watch_one task of each device
    last_event          \* the event a device has sent in the latest step,
                        \* <<device, event>>

routerVars == <<_last_scan_text, _last_scan_time, _shutting_down, monotonic,
                mediaDir>>
stepVars == <<calls, log>>

decoderVars == <<buffer, shift, delivered, seg, segShift, left_over>>

orchVars == <<_keyboard_mode, runPc, polls, task, watch, teardowns>>

\* orchVars without task and watch
orchRest == <<_keyboard_mode, runPc, polls, teardowns>>

envVars == <<mpv_proc, signalled, socket_exists, keyboards, scanner_attached,
             grabbed>>

idleVars == <<splash_showing, last_minute, minute, was_idle, shown_at>>

clientVars == <<in_call, connections, reply, result>>

monitorVars == <<listed, watched, last_event>>

vars == <<routerVars, stepVars, decoderVars, orchVars, envVars, idleVars,
          clientVars, monitorVars>>

----------------------------------------------------------------------------
(* Bounds of the model *)

MaxClock == 3
MaxEvents == 3      \* events of one line before its Enter
MaxMinute == 2      \* the last minute the wall clock reaches

\* the tasks run() creates (player.py:194-203); "input" is _keyboard_reader or
\* scanner.read_scans, by _keyboard_mode
TaskNames == {"idle_watcher", "shutdown_watcher", "_mpv_watcher",
              "_keyboard_exit_watcher", "input"}

\* the keyboards that can be attached, other than the scanner
KeyboardIds == {"kbd"}

\* the input devices of the exit-key monitor's enumeration
DeviceIds == {"kbd", "kbd2", "scanner", "remote", "lid"}

\* a task or a _watch_one task that has ended
Ended == {"done", "failed", "cancelled"}

----------------------------------------------------------------------------
(* Characters and strings *)

LowerLetters == <<"a","b","c","d","e","f","g","h","i","j","k","l","m",
                  "n","o","p","q","r","s","t","u","v","w","x","y","z">>
UpperLetters == <<"A","B","C","D","E","F","G","H","I","J","K","L","M",
                  "N","O","P","Q","R","S","T","U","V","W","X","Y","Z">>

\* str.upper() / str.lower() on one character: the letter tables
UpperOf == [c \in {LowerLetters[i] : i \in 1..26} |->
              UpperLetters[CHOOSE i \in 1..26 : LowerLetters[i] = c]]
LowerOf == [c \in {UpperLetters[i] : i \in 1..26} |->
              LowerLetters[CHOOSE i \in 1..26 : UpperLetters[i] = c]]

UpperChar(c) == IF c \in DOMAIN UpperOf THEN UpperOf[c] ELSE c
LowerChar(c) == IF c \in DOMAIN LowerOf THEN LowerOf[c] ELSE c

upper(s) == [i \in 1..Len(s) |-> UpperChar(s[i])]
lower(s) == [i \in 1..Len(s) |-> LowerChar(s[i])]

\* Python's `p in s` on strings
Contains(s, p) ==
    \E i \in 0..(Len(s) - Len(p)) : SubSeq(s, i + 1, i + Len(p)) = p

\* str.startswith
startswith(s, p) == Len(s) >= Len(p) /\ SubSeq(s, 1, Len(p)) = p

\* str.rfind("."), 1-based, 0 when there is none
RFindDot(name) ==
    IF \E i \in 1..Len(name) : name[i] = "."
    THEN CHOOSE i \in 1..Len(name) :
            name[i] = "." /\ \A j \in (i + 1)..Len(name) : name[j] # "."
    ELSE 0

\* pathlib.PurePath.suffix and .stem of a file name
suffix(name) ==
    LET i == RFindDot(name)
    IN  IF 1 < i /\ i < Len(name) THEN SubSeq(name, i, Len(name)) ELSE <<>>

stem(name) ==
    LET i == RFindDot(name)
    IN  IF 1 < i /\ i < Len(name) THEN SubSeq(name, 1, i - 1) ELSE name

----------------------------------------------------------------------------
(* config.py *)

VIDEO_EXTENSIONS ==
    { <<".","m","p","4">>, <<".","m","k","v">>, <<".","a","v","i">>,
      <<".","w","e","b","m">>, <<".","m","o","v">>, <<".","m","4","v">>,
      <<".","t","s">>, <<".","f","l","v">> }

COMMAND_PREFIX == <<"C","M","D",":">>

PAUSE   == <<"P","A","U","S","E">>
STOP    == <<"S","T","O","P">>
VOLUP   == <<"V","O","L","U","P">>
VOLDOWN == <<"V","O","L","D","O","W","N">>
MUTE    == <<"M","U","T","E">>
FWD     == <<"F","W","D">>
RWD     == <<"R","W","D">>
EXIT    == <<"E","X","I","T">>

COMMANDS == {PAUSE, STOP, VOLUP, VOLDOWN, MUTE, FWD, RWD, EXIT}

SEEK_STEP == 10
SCAN_DEBOUNCE_SECONDS == 2
VOLUME_STEP == 5

MEDIA_DIR == <<"m","e","d","i","a","/">>
SPLASH_IMAGE == <<"a","s","s","e","t","s","/","s","p","l","a","s","h",".","p","n","g">>

----------------------------------------------------------------------------
(* mpv_control.py: the command each helper sends *)

NoPath == <<>>

load_file(path)   == [command |-> <<"loadfile">>, path |-> path]
stop              == [command |-> <<"stop">>, path |-> NoPath]
pause_toggle      == [command |-> <<"cycle", "pause">>, path |-> NoPath]
volume_up(step)   == [command |-> <<"add", "volume", ToString(step)>>, path |-> NoPath]
volume_down(step) == [command |-> <<"add", "volume", ToString(-step)>>, path |-> NoPath]
mute_toggle       == [command |-> <<"cycle", "mute">>, path |-> NoPath]
seek(seconds)     == [command |-> <<"seek", ToString(seconds), "relative">>, path |-> NoPath]
get_property(name) == [command |-> <<"get_property", name>>, path |-> NoPath]
\* is_idle: the call it issues (it answers TRUE only when the reply is true)
is_idle           == get_property("idle-active")

----------------------------------------------------------------------------
(* player.py: the scan router *)

\* find_video comparing the suffix as written, without lower-casing it
find_video_suffix_as_written(text) ==
    { f \in mediaDir :
        /\ f.is_file
        /\ suffix(f.name) \in VIDEO_EXTENSIONS
        /\ lower(stem(f.name)) = lower(text) }

\* find_video: the files the directory walk can return for this stem (the
\* walk returns the first match in the order the OS lists the directory)
find_video(text) ==
    { f \in mediaDir :
        /\ f.is_file
        /\ lower(suffix(f.name)) \in VIDEO_EXTENSIONS
        /\ lower(stem(f.name)) = lower(text) }

\* show_splash: the call it issues
show_splash == load_file(SPLASH_IMAGE)

\* calls and log hold what the step just taken sent to the player and wrote
\* to the log; a step that does neither leaves both empty
NoLog == <<"", <<>> >>
Quiet == calls' = <<>> /\ log' = NoLog

\* the debounce test with the window's end included
Debounced_inclusive(text) ==
    text = _last_scan_text /\ (monotonic - _last_scan_time) <= SCAN_DEBOUNCE_SECONDS

\* handle_scan, lines 65-68
Debounced(text) ==
    text = _last_scan_text /\ (monotonic - _last_scan_time) < SCAN_DEBOUNCE_SECONDS

\* the safety test looking for the path separator only
Suspicious_slash_only(text) == Contains(text, <<"/">>)

\* handle_scan, line 73
Suspicious(text) == Contains(text, <<"/">>) \/ Contains(text, <<".", ".">>)

\* _execute_command with the VOLUP branch pasted into VOLDOWN
CommandCalls_voldown_pasted(cmd) ==
    CASE cmd = PAUSE   -> <<pause_toggle>>
      [] cmd = STOP    -> <<stop, show_splash>>
      [] cmd = VOLUP   -> <<volume_up(VOLUME_STEP)>>
      [] cmd = VOLDOWN -> <<volume_up(VOLUME_STEP)>>
      [] cmd = MUTE    -> <<mute_toggle>>
      [] cmd = FWD     -> <<seek(SEEK_STEP)>>
      [] cmd = RWD     -> <<seek(-SEEK_STEP)>>
      [] OTHER         -> <<>>

\* _execute_command redisplaying the idle screen after PAUSE as after STOP
CommandCalls_pause_splash(cmd) ==
    CASE cmd = PAUSE   -> <<pause_toggle, show_splash>>
      [] cmd = STOP    -> <<stop, show_splash>>
      [] cmd = VOLUP   -> <<volume_up(VOLUME_STEP)>>
      [] cmd = VOLDOWN -> <<volume_down(VOLUME_STEP)>>
      [] cmd = MUTE    -> <<mute_toggle>>
      [] cmd = FWD     -> <<seek(SEEK_STEP)>>
      [] cmd = RWD     -> <<seek(-SEEK_STEP)>>
      [] OTHER         -> <<>>

\* _execute_command, lines 103-117: the calls each command issues, in order
CommandCalls(cmd) ==
    CASE cmd = PAUSE   -> <<pause_toggle>>
      [] cmd = STOP    -> <<stop, show_splash>>
      [] cmd = VOLUP   -> <<volume_up(VOLUME_STEP)>>
      [] cmd = VOLDOWN -> <<volume_down(VOLUME_STEP)>>
      [] cmd = MUTE    -> <<mute_toggle>>
      [] cmd = FWD     -> <<seek(SEEK_STEP)>>
      [] cmd = RWD     -> <<seek(-SEEK_STEP)>>
      [] OTHER         -> <<>>

\* _execute_command (entered from handle_scan, which has just logged
\* "Executing command"; show_splash and the EXIT branch log after it)
_execute_command(cmd) ==
    /\ calls' = CommandCalls(cmd)
    /\ log' = IF cmd = STOP THEN <<"Showing splash screen", <<>> >>
              ELSE IF cmd = EXIT
                   THEN <<"EXIT command received, shutting down", <<>> >>
                   ELSE <<"Executing command", cmd>>
    /\ _shutting_down' = IF cmd = EXIT THEN TRUE ELSE _shutting_down

\* handle_scan recording a scan only once it has been found acceptable
handle_scan_records_when_routed(text) ==
    IF Debounced(text)
    THEN /\ log' = <<"Debounced duplicate scan", text>>
         /\ calls' = <<>>
         /\ UNCHANGED <<_last_scan_text, _last_scan_time, _shutting_down>>
    ELSE IF Suspicious(text)
    THEN /\ log' = <<"Rejected suspicious scan input", text>>
         /\ calls' = <<>>
         /\ UNCHANGED <<_last_scan_text, _last_scan_time, _shutting_down>>
    ELSE LET text_upper == upper(text)
         IN  IF startswith(text_upper, COMMAND_PREFIX)
             THEN LET cmd == SubSeq(text_upper, Len(COMMAND_PREFIX) + 1,
                                    Len(text_upper))
                  IN  IF cmd \notin COMMANDS
                      THEN /\ log' = <<"Unknown command", cmd>>
                           /\ calls' = <<>>
                           /\ UNCHANGED <<_last_scan_text, _last_scan_time,
                                          _shutting_down>>
                      ELSE /\ _last_scan_text' = text
                           /\ _last_scan_time' = monotonic
                           /\ _execute_command(cmd)
             ELSE IF find_video(text) = {}
                  THEN /\ log' = <<"No video found for", text>>
                       /\ calls' = <<>>
                       /\ UNCHANGED <<_last_scan_text, _last_scan_time,
                                      _shutting_down>>
                  ELSE \E video \in find_video(text) :
                          /\ _last_scan_text' = text
                          /\ _last_scan_time' = monotonic
                          /\ log' = <<"Playing", video.name>>
                          /\ calls' = <<load_file(MEDIA_DIR \o video.name)>>
                          /\ UNCHANGED _shutting_down

\* handle_scan: one invocation (it has no suspension point, so it is one step)
handle_scan(text) ==
    IF Debounced(text)
    THEN /\ log' = <<"Debounced duplicate scan", text>>
         /\ calls' = <<>>
         /\ UNCHANGED <<_last_scan_text, _last_scan_time, _shutting_down>>
    ELSE /\ _last_scan_text' = text
         /\ _last_scan_time' = monotonic
         /\ IF Suspicious(text)
            THEN /\ log' = <<"Rejected suspicious scan input", text>>
                 /\ calls' = <<>>
                 /\ UNCHANGED _shutting_down
            ELSE LET text_upper == upper(text)
                 IN  IF startswith(text_upper, COMMAND_PREFIX)
                     THEN LET cmd == SubSeq(text_upper, Len(COMMAND_PREFIX) + 1,
                                            Len(text_upper))
                          IN  IF cmd \notin COMMANDS
                              THEN /\ log' = <<"Unknown command", cmd>>
                                   /\ calls' = <<>>
                                   /\ UNCHANGED _shutting_down
                              ELSE _execute_command(cmd)
                     ELSE IF find_video(text) = {}
                          THEN /\ log' = <<"No video found for", text>>
                               /\ calls' = <<>>
                               /\ UNCHANGED _shutting_down
                          ELSE \E video \in find_video(text) :
                                  /\ log' = <<"Playing", video.name>>
                                  /\ calls' = <<load_file(MEDIA_DIR \o video.name)>>
                                  /\ UNCHANGED _shutting_down

----------------------------------------------------------------------------
(* scanner.py: the keycode decoder *)

\* KEYMAP, lines 12-61: key, normal character, shifted character
\* ("grave" stands for the grave accent, which a string here cannot hold)
KeyTable ==
    << <<"KEY_1", "1", "!">>, <<"KEY_2", "2", "@">>, <<"KEY_3", "3", "#">>,
       <<"KEY_4", "4", "$">>, <<"KEY_5", "5", "%">>, <<"KEY_6", "6", "^">>,
       <<"KEY_7", "7", "&">>, <<"KEY_8", "8", "*">>, <<"KEY_9", "9", "(">>,
       <<"KEY_0", "0", ")">>, <<"KEY_MINUS", "-", "_">>, <<"KEY_EQUAL", "=", "+">>,
       <<"KEY_Q", "q", "Q">>, <<"KEY_W", "w", "W">>, <<"KEY_E", "e", "E">>,
       <<"KEY_R", "r", "R">>, <<"KEY_T", "t", "T">>, <<"KEY_Y", "y", "Y">>,
       <<"KEY_U", "u", "U">>, <<"KEY_I", "i", "I">>, <<"KEY_O", "o", "O">>,
       <<"KEY_P", "p", "P">>, <<"KEY_LEFTBRACE", "[", "{">>,
       <<"KEY_RIGHTBRACE", "]", "}">>,
       <<"KEY_A", "a", "A">>, <<"KEY_S", "s", "S">>, <<"KEY_D", "d", "D">>,
       <<"KEY_F", "f", "F">>, <<"KEY_G", "g", "G">>, <<"KEY_H", "h", "H">>,
       <<"KEY_J", "j", "J">>, <<"KEY_K", "k", "K">>, <<"KEY_L", "l", "L">>,
       <<"KEY_SEMICOLON", ";", ":">>, <<"KEY_APOSTROPHE", "'", "\"">>,
       <<"KEY_GRAVE", "grave", "~">>, <<"KEY_BACKSLASH", "\\", "|">>,
       <<"KEY_Z", "z", "Z">>, <<"KEY_X", "x", "X">>, <<"KEY_C", "c", "C">>,
       <<"KEY_V", "v", "V">>, <<"KEY_B", "b", "B">>, <<"KEY_N", "n", "N">>,
       <<"KEY_M", "m", "M">>, <<"KEY_COMMA", ",", "<">>, <<"KEY_DOT", ".", ">">>,
       <<"KEY_SLASH", "/", "?">>, <<"KEY_SPACE", " ", " ">> >>

KEYMAP ==
    [code \in {KeyTable[i][1] : i \in 1..Len(KeyTable)} |->
        LET i == CHOOSE j \in 1..Len(KeyTable) : KeyTable[j][1] = code
        IN  <<KeyTable[i][2], KeyTable[i][3]>>]

\* evdev: KeyEvent.key_up, key_down, key_hold
key_up   == 0
key_down == 1
key_hold == 2

\* str.strip(): the whitespace a buffer can hold, and the trimmed buffer
Whitespace == {" "}

strip(s) ==
    IF \A i \in 1..Len(s) : s[i] \in Whitespace
    THEN <<>>
    ELSE LET first == CHOOSE i \in 1..Len(s) :
                        s[i] \notin Whitespace /\ \A j \in 1..(i - 1) : s[j] \in Whitespace
             last  == CHOOSE i \in 1..Len(s) :
                        s[i] \notin Whitespace /\ \A j \in (i + 1)..Len(s) : s[j] \in Whitespace
         IN  SubSeq(s, first, last)

\* the key-down test letting repeat events through as well
IsKeyDown_or_hold(e) == e.value \in {key_down, key_hold}

\* _read_loop, line 123: only key-down events are processed
IsKeyDown(e) == e.value = key_down

\* the callback _read_loop is given; the line passed to it is recorded
callback(text) == delivered' = <<text>>

\* _read_loop: the loop body for one event read from the device
_read_loop(e) ==
    IF e.type # "EV_KEY"
    THEN /\ delivered' = <<>>
         /\ UNCHANGED <<buffer, shift>>
    ELSE IF e.code \in {"KEY_LEFTSHIFT", "KEY_RIGHTSHIFT"}
    THEN /\ shift' = (e.value \in {key_down, key_hold})
         /\ delivered' = <<>>
         /\ UNCHANGED buffer
    ELSE IF ~IsKeyDown(e)
    THEN /\ delivered' = <<>>
         /\ UNCHANGED <<buffer, shift>>
    ELSE IF e.code = "KEY_ENTER"
    THEN LET text == strip(buffer)
         IN  /\ buffer' = <<>>
             /\ IF text # <<>> THEN callback(text) ELSE delivered' = <<>>
             /\ UNCHANGED shift
    ELSE /\ buffer' = IF e.code \in DOMAIN KEYMAP
                      THEN Append(buffer, IF shift THEN KEYMAP[e.code][2]
                                                   ELSE KEYMAP[e.code][1])
                      ELSE buffer
         /\ delivered' = <<>>
         /\ UNCHANGED shift

----------------------------------------------------------------------------
(* The scans and the media directories the router is exercised with *)

T_CMD_PAUSE   == <<"C","M","D",":","P","A","U","S","E">>
T_cmd_stop    == <<"c","m","d",":","s","t","o","p">>
T_Cmd_VolUp   == <<"C","m","d",":","V","o","l","U","p">>
T_CMD_VOLDOWN == <<"C","M","D",":","V","O","L","D","O","W","N">>
T_cmd_mute    == <<"c","m","d",":","m","u","t","e">>
T_CMD_FWD     == <<"C","M","D",":","F","W","D">>
T_cmd_rwd     == <<"c","m","d",":","r","w","d">>
T_CMD_EXIT    == <<"C","M","D",":","E","X","I","T">>
T_cmd_Exit    == <<"c","m","d",":","E","x","i","t">>
T_CMD_FOO     == <<"C","M","D",":","F","O","O">>
T_CMD_        == <<"C","M","D",":">>
T_CMD_EXIT_up == <<"C","M","D",":","E","X","I","T","/",".",".">>
T_cmd_stop_dd == <<"c","m","d",":","s","t","o","p",".",".">>
T_bambi       == <<"b","a","m","b","i">>
T_BAMBI       == <<"B","A","M","B","I">>
T_bambi_mp4   == <<"b","a","m","b","i",".","m","p","4">>
T_dumbo       == <<"d","u","m","b","o">>
T_a_slash_b   == <<"a","/","b">>
T_x_dd_y      == <<"x",".",".","y">>
T_x_d_y       == <<"x",".","y">>

Texts ==
    { T_CMD_PAUSE, T_cmd_stop, T_Cmd_VolUp, T_CMD_VOLDOWN, T_cmd_mute,
      T_CMD_FWD, T_cmd_rwd, T_CMD_EXIT, T_cmd_Exit, T_CMD_FOO, T_CMD_,
      T_CMD_EXIT_up, T_cmd_stop_dd, T_bambi, T_BAMBI, T_bambi_mp4, T_dumbo,
      T_a_slash_b, T_x_dd_y, T_x_d_y }

File(name) == [name |-> name, is_file |-> TRUE]
Dir(name)  == [name |-> name, is_file |-> FALSE]

FilePool ==
    { File(<<"B","a","m","b","i",".","m","p","4">>),
      File(<<"b","a","m","b","i",".","M","K","V">>),
      File(<<"d","u","m","b","o",".","t","x","t">>),
      Dir(<<"D","u","m","b","o",".","m","p","4">>),
      File(<<"c","m","d",":","f","o","o",".","m","p","4">>),
      File(<<"x",".",".","y",".","m","p","4">>),
      File(<<"x",".","y",".","m","p","4">>) }

\* the empty directory, every one-entry directory and the full one
MediaDirs ==
    { d \in SUBSET FilePool : Cardinality(d) \in {0, 1, Cardinality(FilePool)} }

----------------------------------------------------------------------------
(* The scan router on its own: scans arrive at any time, the clock advances *)

InitRouterVars ==
    /\ _last_scan_text = <<>>
    /\ _last_scan_time = 0
    /\ _shutting_down = FALSE
    /\ monotonic = 0
    /\ calls = <<>>
    /\ log = NoLog

InitDecoderVars ==
    /\ buffer = <<>>
    /\ shift = FALSE
    /\ delivered = <<>>
    /\ seg = <<>>
    /\ segShift = FALSE
    /\ left_over = <<>>

InitOrchVars ==
    /\ runPc = "startup"
    /\ polls = 0
    /\ task = [t \in TaskNames |-> "none"]
    /\ watch = [k \in KeyboardIds |-> "none"]
    /\ teardowns = 0

InitEnvVars ==
    /\ mpv_proc = "running"
    /\ signalled = <<>>
    /\ socket_exists = FALSE
    /\ grabbed = FALSE

InitIdleVars ==
    /\ splash_showing = FALSE
    /\ last_minute = -1
    /\ minute = 0
    /\ was_idle = FALSE
    /\ shown_at = -1

InitMonitorVars ==
    /\ listed = {}
    /\ watched = [d \in DeviceIds |-> "none"]
    /\ last_event = <<>>

InitClientVars ==
    /\ in_call = "none"
    /\ connections = 0
    /\ reply = [fault |-> "", data |-> ""]
    /\ result = "none"

\* the parts of the state a specification of one component leaves alone
NotStarted ==
    /\ InitOrchVars
    /\ InitEnvVars
    /\ InitIdleVars
    /\ InitClientVars
    /\ InitMonitorVars
    /\ _keyboard_mode = FALSE
    /\ keyboards = {}
    /\ scanner_attached = FALSE

RouterInit ==
    /\ InitRouterVars
    /\ mediaDir \in MediaDirs
    /\ InitDecoderVars
    /\ NotStarted

RouterScan ==
    \E text \in Texts :
        /\ handle_scan(text)
        /\ UNCHANGED <<monotonic, mediaDir, decoderVars, clientVars, monitorVars, orchVars, envVars, idleVars>>

Tick ==
    /\ monotonic < MaxClock
    /\ monotonic' = monotonic + 1
    /\ Quiet
    /\ UNCHANGED <<_last_scan_text, _last_scan_time, _shutting_down, mediaDir,
                   decoderVars, clientVars, monitorVars, orchVars, envVars, idleVars>>

RouterNext == RouterScan \/ Tick

SpecRouter == RouterInit /\ [][RouterNext]_vars

----------------------------------------------------------------------------
(* The decoder on its own: one device session, events arrive in any order *)

Key(code, value) == [type |-> "EV_KEY", code |-> code, value |-> value]

\* KEY_F1 is a key KEYMAP does not hold; EV_SYN is an event that is no key event
Events ==
    { Key("KEY_A", key_down), Key("KEY_A", key_up), Key("KEY_A", key_hold),
      Key("KEY_SPACE", key_down),
      Key("KEY_LEFTSHIFT", key_down), Key("KEY_LEFTSHIFT", key_up),
      Key("KEY_RIGHTSHIFT", key_hold),
      Key("KEY_ENTER", key_down), Key("KEY_ENTER", key_up),
      Key("KEY_F1", key_down),
      [type |-> "EV_SYN", code |-> "SYN_REPORT", value |-> 0] }

IsEnterDown(e) == e.type = "EV_KEY" /\ e.code = "KEY_ENTER" /\ e.value = 1

SegComplete == seg # <<>> /\ IsEnterDown(seg[Len(seg)])

\* whether a shift key was last seen down or held, after the events evs
ShiftAfter(s0, evs) ==
    LET S == { i \in 1..Len(evs) :
                 evs[i].type = "EV_KEY"
                 /\ evs[i].code \in {"KEY_LEFTSHIFT", "KEY_RIGHTSHIFT"} }
    IN  IF S = {} THEN s0
        ELSE evs[CHOOSE i \in S : \A j \in S : j <= i].value \in {1, 2}

DecoderInit ==
    /\ InitRouterVars
    /\ mediaDir = {}
    /\ InitDecoderVars
    /\ NotStarted

DecoderEvent ==
    \E e \in Events :
        /\ SegComplete \/ Len(seg) < MaxEvents \/ IsEnterDown(e)
        /\ _read_loop(e)
        /\ seg' = IF SegComplete THEN <<e>> ELSE Append(seg, e)
        /\ segShift' = IF SegComplete THEN ShiftAfter(segShift, seg) ELSE segShift
        /\ Quiet /\ UNCHANGED <<routerVars, orchVars, envVars, idleVars, clientVars, monitorVars,
                                 left_over>>

DecoderNext == DecoderEvent

SpecDecoder == DecoderInit /\ [][DecoderNext]_vars

----------------------------------------------------------------------------
(* player.py: the orchestrator, the watchers and the input tasks.  The event *)
(* loop is single-threaded: a step runs one task from one suspension point   *)
(* (an await) to the next.                                                   *)

\* the iterations of run()'s wait for the control socket
SocketPolls == 20

\* _keyboard_exit_watcher, line 239
EXIT_KEYS == {"KEY_Q", "KEY_ESC"}

\* the lines the input delivers, and the events a watched keyboard sends
InputTexts == {T_CMD_EXIT, T_bambi}

KeyboardEvents ==
    { Key("KEY_Q", key_down), Key("KEY_Q", key_up), Key("KEY_ESC", key_hold),
      Key("KEY_ESC", key_down), Key("KEY_A", key_down) }

\* the event loop is running run()'s awaits, and task t is suspended at pcs
LoopRuns == runPc \in {"waiting", "awaiting"}
At(t, pcs) == LoopRuns /\ task[t] \in pcs

\* a `while not _shutting_down` loop head, reached with the flag as given
LoopHead(flag, next) == IF flag THEN "done" ELSE next

(* The environment *)

MpvCreatesSocket ==
    /\ runPc = "startup" /\ mpv_proc = "running" /\ ~socket_exists
    /\ socket_exists' = TRUE
    /\ Quiet /\ UNCHANGED <<routerVars, decoderVars, clientVars, monitorVars, orchVars, idleVars, mpv_proc,
                   signalled, keyboards, scanner_attached, grabbed>>

MpvExits ==
    /\ runPc # "closed" /\ mpv_proc = "running"
    /\ mpv_proc' = "exited"
    /\ Quiet /\ UNCHANGED <<routerVars, decoderVars, clientVars, monitorVars, orchVars, idleVars, signalled,
                   socket_exists, keyboards, scanner_attached, grabbed>>

KeyboardAttached ==
    \E k \in KeyboardIds \ keyboards :
        /\ LoopRuns
        /\ keyboards' = keyboards \cup {k}
        /\ Quiet /\ UNCHANGED <<routerVars, decoderVars, clientVars, monitorVars, orchVars, idleVars, mpv_proc,
                       signalled, socket_exists, scanner_attached, grabbed>>

KeyboardDetached ==
    \E k \in keyboards :
        /\ LoopRuns
        /\ keyboards' = keyboards \ {k}
        /\ Quiet /\ UNCHANGED <<routerVars, decoderVars, clientVars, monitorVars, orchVars, idleVars, mpv_proc,
                       signalled, socket_exists, scanner_attached, grabbed>>

ScannerAttached ==
    /\ LoopRuns /\ ~scanner_attached /\ ~_keyboard_mode
    /\ scanner_attached' = TRUE
    /\ Quiet /\ UNCHANGED <<routerVars, decoderVars, clientVars, monitorVars, orchVars, idleVars, mpv_proc,
                   signalled, socket_exists, keyboards, grabbed>>

ScannerDetached ==
    /\ LoopRuns /\ scanner_attached /\ ~_keyboard_mode
    /\ scanner_attached' = FALSE
    /\ Quiet /\ UNCHANGED <<routerVars, decoderVars, clientVars, monitorVars, orchVars, idleVars, mpv_proc,
                   signalled, socket_exists, keyboards, grabbed>>

\* _signal_shutdown, run by the loop on SIGTERM or SIGINT once run() has
\* installed it (line 191)
_signal_shutdown ==
    /\ LoopRuns
    /\ _shutting_down' = TRUE
    /\ Quiet
    /\ UNCHANGED <<_last_scan_text, _last_scan_time, monotonic, mediaDir,
                   decoderVars, clientVars, monitorVars, orchVars, envVars, idleVars>>

(* run() *)

\* lines 176-203: one iteration of the socket wait; when the socket is there,
\* the idle screen, the signal handlers and the tasks, up to the wait
RunPoll ==
    /\ runPc = "startup" /\ polls < SocketPolls
    /\ IF socket_exists
       THEN /\ calls' = <<show_splash>>
            /\ task' = [t \in TaskNames |->
                          IF t = "idle_watcher" \/ (t = "input" /\ _keyboard_mode)
                          THEN "start"
                          ELSE IF t = "input" THEN "search" ELSE "sleep"]
            /\ runPc' = "waiting"
            /\ polls' = 0      \* the loop is left, its counter is dead
       ELSE /\ polls' = polls + 1
            /\ calls' = <<>>
            /\ UNCHANGED <<task, runPc>>
    /\ log' = NoLog
    /\ UNCHANGED <<_last_scan_text, _last_scan_time, _shutting_down, monotonic,
                   mediaDir, decoderVars, clientVars, monitorVars, _keyboard_mode, watch,
                   teardowns, envVars, idleVars>>

\* run() without the return of line 183: the watcher phase is entered
RunGivesUp_no_return ==
    /\ runPc = "startup" /\ polls = SocketPolls
    /\ signalled' = Append(signalled, "terminate")
    /\ calls' = <<show_splash>> /\ log' = NoLog
    /\ task' = [t \in TaskNames |->
                  IF t = "idle_watcher" \/ (t = "input" /\ _keyboard_mode)
                  THEN "start"
                  ELSE IF t = "input" THEN "search" ELSE "sleep"]
    /\ runPc' = "waiting"
    /\ UNCHANGED <<routerVars, decoderVars, clientVars, monitorVars, _keyboard_mode, polls,
                   watch, teardowns, mpv_proc, socket_exists,
                   keyboards, scanner_attached, grabbed, idleVars>>

\* lines 180-183: the socket never appeared
RunGivesUp ==
    /\ runPc = "startup" /\ polls = SocketPolls
    /\ signalled' = Append(signalled, "terminate")
    /\ runPc' = "returned"
    /\ Quiet /\ UNCHANGED <<routerVars, decoderVars, clientVars, monitorVars, _keyboard_mode, polls, task,
                   watch, teardowns, mpv_proc, socket_exists,
                   keyboards, scanner_attached, grabbed, idleVars>>

\* run() without the cancel() calls of lines 209-210
CancelPending_nothing_cancelled == task

\* the tasks run() cancels: each is resumed with CancelledError at its
\* suspension point and runs no other code of its own.  Only read_scans,
\* inside _read_loop, handles it: its finally block releases the scanner and
\* sleeps before the task ends (scanner.py:98-103).  The _watch_one tasks of
\* a cancelled _keyboard_exit_watcher are left alone.
CancelPending ==
    [t \in TaskNames |->
        IF task[t] \in Ended THEN task[t]
        ELSE IF t = "input" /\ task[t] = "reading" THEN "finally_cancelled"
        ELSE "cancelled"]

\* lines 206-213: asyncio.wait returns on the first task that ended; every
\* task still pending is cancelled, and the first of them awaited
RunFirstCompleted ==
    /\ runPc = "waiting"
    /\ \E t \in TaskNames : task[t] \in Ended
    /\ task' = CancelPending
    /\ grabbed' = (grabbed /\ task["input"] # "reading")
    /\ runPc' = "awaiting"
    /\ Quiet /\ UNCHANGED <<routerVars, decoderVars, clientVars, monitorVars, _keyboard_mode, polls, watch,
                   teardowns, mpv_proc, signalled, socket_exists, keyboards,
                   scanner_attached, idleVars>>

\* run() without the poll() test of line 218
RunTeardown_no_poll ==
    /\ runPc = "awaiting"
    /\ \A t \in TaskNames : task[t] \in Ended
    /\ teardowns' = teardowns + 1
    /\ signalled' = Append(signalled, "terminate") /\ runPc' = "grace"
    /\ Quiet /\ UNCHANGED <<routerVars, decoderVars, clientVars, monitorVars, _keyboard_mode, polls, task,
                   watch, mpv_proc, socket_exists, keyboards,
                   scanner_attached, grabbed, idleVars>>

\* lines 211-222: every cancelled task has ended; the player process is sent
\* terminate if it is still running
RunTeardown ==
    /\ runPc = "awaiting"
    /\ \A t \in TaskNames : task[t] \in Ended
    /\ teardowns' = teardowns + 1
    /\ IF mpv_proc = "running"
       THEN signalled' = Append(signalled, "terminate") /\ runPc' = "grace"
       ELSE UNCHANGED signalled /\ runPc' = "done"
    /\ Quiet /\ UNCHANGED <<routerVars, decoderVars, clientVars, monitorVars, _keyboard_mode, polls, task,
                   watch, mpv_proc, socket_exists, keyboards,
                   scanner_attached, grabbed, idleVars>>

\* line 222: the process exited within the grace period
RunWaitReturns ==
    /\ runPc = "grace" /\ mpv_proc = "exited"
    /\ runPc' = "done"
    /\ Quiet /\ UNCHANGED <<routerVars, decoderVars, clientVars, monitorVars, _keyboard_mode, polls, task,
                   watch, teardowns, envVars, idleVars>>

\* lines 223-224: the grace period expired
RunWaitTimesOut ==
    /\ runPc = "grace" /\ mpv_proc = "running"
    /\ signalled' = Append(signalled, "kill")
    /\ mpv_proc' = "exited"
    /\ runPc' = "done"
    /\ Quiet /\ UNCHANGED <<routerVars, decoderVars, clientVars, monitorVars, _keyboard_mode, polls, task,
                   watch, teardowns, socket_exists, keyboards,
                   scanner_attached, grabbed, idleVars>>

\* main(), line 321: asyncio.run cancels the tasks still alive when run()
\* has returned, and closes the loop
AsyncioRunEnds ==
    /\ runPc \in {"done", "returned"}
    /\ runPc' = "closed"
    /\ task' = [t \in TaskNames |->
                  IF task[t] \in Ended \cup {"none"} THEN task[t] ELSE "cancelled"]
    /\ watch' = [k \in KeyboardIds |->
                  IF watch[k] = "reading" THEN "cancelled" ELSE watch[k]]
    /\ Quiet /\ UNCHANGED <<routerVars, decoderVars, clientVars, monitorVars, _keyboard_mode, polls, teardowns,
                   envVars, idleVars>>

(* The watchers *)

\* idle_watcher entered: the first loop head, before any poll
IdleWatcherStarts ==
    /\ At("idle_watcher", {"start"})
    /\ task' = [task EXCEPT !["idle_watcher"] = LoopHead(_shutting_down, "sleep")]
    /\ Quiet /\ UNCHANGED <<routerVars, decoderVars, clientVars, monitorVars, orchRest, watch, envVars, idleVars>>

\* idle_watcher, line 132, with `and` for `or`
Refresh_and(current_minute) ==
    ~splash_showing /\ current_minute # last_minute

\* idle_watcher, line 132: whether the idle screen is generated and loaded
Refresh(current_minute) ==
    ~splash_showing \/ current_minute # last_minute

\* idle_watcher, lines 129-138 and the loop head after them: one poll.  The
\* player answers the idle query as it pleases (no answer counts as not idle).
idle_watcher ==
    /\ At("idle_watcher", {"sleep"})
    /\ \E idle \in BOOLEAN :
         /\ was_idle' = idle
         /\ IF idle
            THEN LET current_minute == minute
                 IN  IF Refresh(current_minute)
                     THEN /\ calls' = <<is_idle, show_splash>>
                          /\ splash_showing' = TRUE
                          /\ last_minute' = current_minute
                          /\ shown_at' = minute
                     ELSE /\ calls' = <<is_idle>>
                          /\ UNCHANGED <<splash_showing, last_minute, shown_at>>
            ELSE /\ calls' = <<is_idle>>
                 /\ splash_showing' = FALSE
                 /\ last_minute' = -1
                 /\ UNCHANGED shown_at
    /\ task' = [task EXCEPT !["idle_watcher"] = LoopHead(_shutting_down, "sleep")]
    /\ log' = NoLog
    /\ UNCHANGED <<_last_scan_text, _last_scan_time, _shutting_down, monotonic,
                   mediaDir, decoderVars, clientVars, monitorVars, orchRest, watch, envVars, minute>>

\* _mpv_watcher without the test of line 146: shutdown whatever poll() says
_mpv_watcher_no_exit_test ==
    /\ At("_mpv_watcher", {"sleep"})
    /\ _shutting_down' = TRUE
    /\ task' = [task EXCEPT !["_mpv_watcher"] = "done"]
    /\ Quiet
    /\ UNCHANGED <<_last_scan_text, _last_scan_time, monotonic, mediaDir,
                   decoderVars, clientVars, monitorVars, orchRest, watch, envVars, idleVars>>

\* _mpv_watcher, lines 144-149
_mpv_watcher ==
    /\ At("_mpv_watcher", {"sleep"})
    /\ IF _shutting_down
       THEN /\ task' = [task EXCEPT !["_mpv_watcher"] = "done"]
            /\ UNCHANGED _shutting_down
       ELSE IF mpv_proc = "exited"
       THEN /\ _shutting_down' = TRUE
            /\ task' = [task EXCEPT !["_mpv_watcher"] = "done"]
       ELSE UNCHANGED <<_shutting_down, task>>
    /\ Quiet
    /\ UNCHANGED <<_last_scan_text, _last_scan_time, monotonic, mediaDir,
                   decoderVars, clientVars, monitorVars, orchRest, watch, envVars, idleVars>>

\* shutdown_watcher with the loop condition of line 154 inverted
shutdown_watcher_inverted ==
    /\ At("shutdown_watcher", {"sleep"})
    /\ task' = [task EXCEPT !["shutdown_watcher"] = LoopHead(~_shutting_down, "sleep")]
    /\ Quiet /\ UNCHANGED <<routerVars, decoderVars, clientVars, monitorVars, orchRest, watch, envVars, idleVars>>

\* shutdown_watcher, lines 154-156
shutdown_watcher ==
    /\ At("shutdown_watcher", {"sleep"})
    /\ task' = [task EXCEPT !["shutdown_watcher"] = LoopHead(_shutting_down, "sleep")]
    /\ Quiet /\ UNCHANGED <<routerVars, decoderVars, clientVars, monitorVars, orchRest, watch, envVars, idleVars>>

\* _keyboard_exit_watcher, lines 241-259, from the loop head: with the flag up
\* the task returns; else the devices are listed, and with no keyboard the task
\* sleeps, with some it starts a _watch_one task for each and waits for the
\* first of them to end.  w is the state of the _watch_one tasks on arrival.
KeyboardExitLoop(w) ==
    IF _shutting_down
    THEN /\ task' = [task EXCEPT !["_keyboard_exit_watcher"] = "done"]
         /\ watch' = w
    ELSE IF keyboards = {}
    THEN /\ task' = [task EXCEPT !["_keyboard_exit_watcher"] = "sleep"]
         /\ watch' = w
    ELSE /\ task' = [task EXCEPT !["_keyboard_exit_watcher"] = "monitor"]
         /\ watch' = [k \in KeyboardIds |->
                        IF k \in keyboards THEN "reading"
                        ELSE IF w[k] = "reading" THEN w[k] ELSE "none"]

\* the loop entered, or resumed after the sleep of line 254
KeyboardExitScan ==
    /\ At("_keyboard_exit_watcher", {"sleep"})
    /\ KeyboardExitLoop(watch)
    /\ Quiet /\ UNCHANGED <<routerVars, decoderVars, clientVars, monitorVars, orchRest, envVars, idleVars>>

\* lines 244-248: opening a listed device raises OSError, outside any try
KeyboardExitScanFails ==
    /\ At("_keyboard_exit_watcher", {"sleep"})
    /\ ~_shutting_down
    /\ keyboards # {} \/ scanner_attached
    /\ task' = [task EXCEPT !["_keyboard_exit_watcher"] = "failed"]
    /\ Quiet /\ UNCHANGED <<routerVars, decoderVars, clientVars, monitorVars, orchRest, watch, envVars, idleVars>>

\* _monitor_keyboards, lines 282-284: the first _watch_one task has ended
\* (returned or raised: asyncio.wait hands on neither); the others are
\* cancelled, and _keyboard_exit_watcher is back at its loop head
_monitor_keyboards ==
    /\ At("_keyboard_exit_watcher", {"monitor"})
    /\ \E k \in KeyboardIds : watch[k] \in {"done", "failed"}
    /\ KeyboardExitLoop([k \in KeyboardIds |->
                            IF watch[k] = "reading" THEN "cancelled" ELSE watch[k]])
    /\ Quiet /\ UNCHANGED <<routerVars, decoderVars, clientVars, monitorVars, orchRest, envVars, idleVars>>

\* _watch_one, lines 272-279: one event read from a watched keyboard
_watch_one ==
    \E k \in keyboards, event \in KeyboardEvents :
        /\ LoopRuns /\ watch[k] = "reading"
        /\ IF _shutting_down
           THEN /\ watch' = [watch EXCEPT ![k] = "done"]
                /\ UNCHANGED _shutting_down
           ELSE IF event.type = "EV_KEY" /\ event.value = 1 /\ event.code \in EXIT_KEYS
           THEN /\ _shutting_down' = TRUE
                /\ watch' = [watch EXCEPT ![k] = "done"]
           ELSE UNCHANGED <<_shutting_down, watch>>
        /\ Quiet
        /\ UNCHANGED <<_last_scan_text, _last_scan_time, monotonic, mediaDir,
                       decoderVars, clientVars, monitorVars, orchRest, task, envVars, idleVars>>

\* _watch_one, line 272: the watched keyboard is gone, the read raises OSError
WatchOneFails ==
    \E k \in KeyboardIds \ keyboards :
        /\ LoopRuns /\ watch[k] = "reading"
        /\ watch' = [watch EXCEPT ![k] = "failed"]
        /\ Quiet /\ UNCHANGED <<routerVars, decoderVars, clientVars, monitorVars, orchRest, task, envVars, idleVars>>

(* The input tasks *)

\* _keyboard_reader, lines 289-293: the pipe is connected, the first loop head
KeyboardReaderStarts ==
    /\ _keyboard_mode /\ At("input", {"start"})
    /\ task' = [task EXCEPT !["input"] = LoopHead(_shutting_down, "readline")]
    /\ Quiet /\ UNCHANGED <<routerVars, decoderVars, clientVars, monitorVars, orchRest, watch, envVars, idleVars>>

\* _keyboard_reader, lines 294-299: a line that is not blank
KeyboardReaderLine ==
    \E text \in InputTexts :
        /\ _keyboard_mode /\ At("input", {"readline"})
        /\ handle_scan(text)
        /\ task' = [task EXCEPT !["input"] = LoopHead(_shutting_down', "readline")]
        /\ UNCHANGED <<monotonic, mediaDir, decoderVars, clientVars, monitorVars, orchRest, watch, envVars,
                       idleVars>>

\* _keyboard_reader, lines 294-298: a blank line
KeyboardReaderBlank ==
    /\ _keyboard_mode /\ At("input", {"readline"})
    /\ task' = [task EXCEPT !["input"] = LoopHead(_shutting_down, "readline")]
    /\ Quiet /\ UNCHANGED <<routerVars, decoderVars, clientVars, monitorVars, orchRest, watch, envVars, idleVars>>

\* _keyboard_reader, lines 294-296: end of input
KeyboardReaderEOF ==
    /\ _keyboard_mode /\ At("input", {"readline"})
    /\ task' = [task EXCEPT !["input"] = "done"]
    /\ Quiet /\ UNCHANGED <<routerVars, decoderVars, clientVars, monitorVars, orchRest, watch, envVars, idleVars>>

\* read_scans, lines 80-92: no scanner, or the grab fails: sleep and search
\* again; else the scanner is grabbed and read
read_scans ==
    /\ ~_keyboard_mode /\ At("input", {"search"})
    /\ \/ UNCHANGED <<task, grabbed>>
       \/ /\ scanner_attached
          /\ grabbed' = TRUE
          /\ task' = [task EXCEPT !["input"] = "reading"]
    /\ Quiet /\ UNCHANGED <<routerVars, decoderVars, clientVars, monitorVars, orchRest, watch, mpv_proc, signalled,
                   socket_exists, keyboards, scanner_attached, idleVars>>

\* find_scanner, lines 66-67: opening a listed device raises OSError
FindScannerFails ==
    /\ ~_keyboard_mode /\ At("input", {"search"})
    /\ keyboards # {} \/ scanner_attached
    /\ task' = [task EXCEPT !["input"] = "failed"]
    /\ Quiet /\ UNCHANGED <<routerVars, decoderVars, clientVars, monitorVars, orchRest, watch, envVars, idleVars>>

\* _read_loop, lines 127-132: the grabbed scanner has sent a line
ScannerLine ==
    \E text \in InputTexts :
        /\ ~_keyboard_mode /\ At("input", {"reading"}) /\ scanner_attached
        /\ handle_scan(text)
        /\ UNCHANGED <<monotonic, mediaDir, decoderVars, clientVars, monitorVars, orchVars, envVars, idleVars>>

\* read_scans without the ungrab of lines 99-102
ScannerDisconnects_no_ungrab ==
    /\ ~_keyboard_mode /\ At("input", {"reading"}) /\ ~scanner_attached
    /\ task' = [task EXCEPT !["input"] = "finally_sleep"]
    /\ Quiet /\ UNCHANGED <<routerVars, decoderVars, clientVars, monitorVars, orchRest, watch, envVars, idleVars>>

\* read_scans, lines 96-103: the scanner is gone, the read raises OSError;
\* the device is released and the reconnect sleep begins
ScannerDisconnects ==
    /\ ~_keyboard_mode /\ At("input", {"reading"}) /\ ~scanner_attached
    /\ grabbed' = FALSE
    /\ task' = [task EXCEPT !["input"] = "finally_sleep"]
    /\ Quiet /\ UNCHANGED <<routerVars, decoderVars, clientVars, monitorVars, orchRest, watch, mpv_proc, signalled,
                   socket_exists, keyboards, scanner_attached, idleVars>>

\* read_scans, lines 95 and 98-103: the event stream of the grabbed scanner
\* ends, _read_loop returns; the device is released and the sleep begins
ScannerStreamEnds ==
    /\ ~_keyboard_mode /\ At("input", {"reading"}) /\ scanner_attached
    /\ grabbed' = FALSE
    /\ task' = [task EXCEPT !["input"] = "finally_sleep"]
    /\ Quiet /\ UNCHANGED <<routerVars, decoderVars, clientVars, monitorVars, orchRest, watch, mpv_proc, signalled,
                   socket_exists, keyboards, scanner_attached, idleVars>>

\* _read_loop, line 132, and read_scans, lines 98-103: the callback raises out
\* of a control-protocol call (mpv_control.py:38, on a response that is no
\* object); no except clause of read_scans takes it, the finally block
\* releases the device and sleeps with the exception pending
ScannerCallbackRaises ==
    \E text \in InputTexts :
        /\ ~_keyboard_mode /\ At("input", {"reading"}) /\ scanner_attached
        /\ handle_scan(text)
        /\ calls' # <<>>
        /\ grabbed' = FALSE
        /\ task' = [task EXCEPT !["input"] = "finally_failed"]
        /\ UNCHANGED <<monotonic, mediaDir, decoderVars, clientVars, monitorVars, orchRest, watch, mpv_proc,
                       signalled, socket_exists, keyboards, scanner_attached, idleVars>>

\* read_scans, line 103: the sleep in the finally block is over; the loop goes
\* on, or the exception or cancellation that entered the block goes on
FinallySleepEnds ==
    /\ LoopRuns
    /\ task["input"] \in {"finally_sleep", "finally_failed", "finally_cancelled"}
    /\ task' = [task EXCEPT !["input"] =
                  CASE task["input"] = "finally_sleep" -> "search"
                    [] task["input"] = "finally_failed" -> "failed"
                    [] OTHER -> "cancelled"]
    /\ Quiet /\ UNCHANGED <<routerVars, decoderVars, clientVars, monitorVars, orchRest, watch, envVars, idleVars>>

(* The whole program *)

Init ==
    /\ InitRouterVars
    /\ mediaDir = {File(<<"B","a","m","b","i",".","m","p","4">>)}
    /\ InitDecoderVars
    /\ InitOrchVars
    /\ InitEnvVars
    /\ InitIdleVars
    /\ InitClientVars
    /\ InitMonitorVars
    /\ _keyboard_mode \in BOOLEAN
    /\ keyboards \in SUBSET KeyboardIds
    /\ scanner_attached \in BOOLEAN

Environment ==
    \/ MpvCreatesSocket \/ MpvExits
    \/ KeyboardAttached \/ KeyboardDetached
    \/ ScannerAttached \/ ScannerDetached
    \/ _signal_shutdown

Orchestrator ==
    \/ RunPoll \/ RunGivesUp \/ RunFirstCompleted \/ RunTeardown
    \/ RunWaitReturns \/ RunWaitTimesOut \/ AsyncioRunEnds

Watchers ==
    \/ IdleWatcherStarts \/ idle_watcher \/ _mpv_watcher \/ shutdown_watcher
    \/ KeyboardExitScan \/ KeyboardExitScanFails \/ _monitor_keyboards
    \/ _watch_one \/ WatchOneFails

Inputs ==
    \/ KeyboardReaderStarts \/ KeyboardReaderLine \/ KeyboardReaderBlank
    \/ KeyboardReaderEOF
    \/ read_scans \/ FindScannerFails \/ ScannerLine \/ ScannerDisconnects
    \/ ScannerStreamEnds \/ ScannerCallbackRaises
    \/ FinallySleepEnds

Program == Orchestrator \/ Watchers \/ Inputs

Next == Program \/ Environment

Spec == Init /\ [][Next]_vars

\* the whole program again, with the clock moving on once and with scans that
\* handle_scan turns down: an unsafe text, an unknown command, a name that
\* matches no file
RejectedTexts == {T_a_slash_b, T_CMD_FOO, T_dumbo}

\* _read_loop, lines 127-132: the grabbed scanner has sent such a line
ScannerLineRejected ==
    \E text \in RejectedTexts :
        /\ ~_keyboard_mode /\ At("input", {"reading"}) /\ scanner_attached
        /\ handle_scan(text)
        /\ UNCHANGED <<monotonic, mediaDir, decoderVars, clientVars, monitorVars, orchVars, envVars, idleVars>>

\* _keyboard_reader, lines 294-299: such a line on the test input
KeyboardReaderLineRejected ==
    \E text \in RejectedTexts :
        /\ _keyboard_mode /\ At("input", {"readline"})
        /\ handle_scan(text)
        /\ task' = [task EXCEPT !["input"] = LoopHead(_shutting_down', "readline")]
        /\ UNCHANGED <<monotonic, mediaDir, decoderVars, clientVars, monitorVars, orchRest, watch, envVars,
                       idleVars>>

\* time.monotonic() moves on, once
FrameTick ==
    /\ monotonic = 0
    /\ monotonic' = 1
    /\ Quiet
    /\ UNCHANGED <<_last_scan_text, _last_scan_time, _shutting_down, mediaDir,
                   decoderVars, clientVars, monitorVars, orchVars, envVars, idleVars>>

FrameNext ==
    Next \/ FrameTick \/ ScannerLineRejected \/ KeyboardReaderLineRejected

SpecFrame == Init /\ [][FrameNext]_vars

\* fair scheduling: the event loop resumes run() whenever it can go on, runs
\* shutdown_watcher when its sleep is over, and ends the sleep of read_scans'
\* finally block.  Nothing is assumed of the environment or of the other tasks.
Fairness ==
    /\ WF_vars(Orchestrator)
    /\ WF_vars(shutdown_watcher)
    /\ WF_vars(FinallySleepEnds)

FairSpec == Spec /\ Fairness

----------------------------------------------------------------------------
(* The watcher phase while run() stays suspended in its wait (line 206): no  *)
(* task is cancelled, each task goes as far as it goes on its own            *)

WatchersNext ==
    \/ Environment
    \/ RunPoll
    \/ Watchers
    \/ Inputs

SpecWatchers == Init /\ [][WatchersNext]_vars

\* each watcher is resumed when its sleep is over, and _keyboard_exit_watcher
\* when asyncio.wait has a _watch_one task that ended; no event is assumed to
\* arrive from any device
WatchersFairness ==
    /\ WF_vars(IdleWatcherStarts)
    /\ WF_vars(idle_watcher)
    /\ WF_vars(_mpv_watcher)
    /\ WF_vars(shutdown_watcher)
    /\ WF_vars(KeyboardExitScan)
    /\ WF_vars(_monitor_keyboards)

FairWatchers == SpecWatchers /\ WatchersFairness

----------------------------------------------------------------------------
(* The idle watcher on its own: startup, then idle_watcher is the one task  *)
(* that runs, while the wall clock goes from minute to minute               *)

\* datetime.now().minute (line 131) has moved on
MinuteTick ==
    /\ minute < MaxMinute
    /\ minute' = minute + 1
    /\ Quiet
    /\ UNCHANGED <<routerVars, decoderVars, clientVars, monitorVars, orchVars, envVars, splash_showing,
                   last_minute, was_idle, shown_at>>

IdleInit ==
    /\ InitRouterVars
    /\ mediaDir = {}
    /\ InitDecoderVars
    /\ InitOrchVars
    /\ InitEnvVars
    /\ InitIdleVars
    /\ InitClientVars
    /\ InitMonitorVars
    /\ _keyboard_mode = FALSE
    /\ keyboards = {}
    /\ scanner_attached = FALSE

IdleNext ==
    \/ MpvCreatesSocket \/ RunPoll
    \/ IdleWatcherStarts \/ idle_watcher
    \/ MinuteTick
    \/ _signal_shutdown

SpecIdle == IdleInit /\ [][IdleNext]_vars

----------------------------------------------------------------------------
(* Claims about the scan router, stated without the router's own tests *)

\* the text holds a "/" or two adjacent "."
HasSlashOrDotDot(t) ==
    \/ \E i \in 1..Len(t) : t[i] = "/"
    \/ \E i \in 1..(Len(t) - 1) : t[i] = "." /\ t[i + 1] = "."

\* the scan repeats the last-accepted text inside the debounce window
InsideWindow(t) ==
    t = _last_scan_text /\ monotonic - _last_scan_time < SCAN_DEBOUNCE_SECONDS

\* the upper-cased text starts with "CMD:", and what follows it
HasPrefix(t) == Len(t) >= 4 /\ upper(SubSeq(t, 1, 4)) = <<"C","M","D",":">>
Remainder(t) == upper(SubSeq(t, 5, Len(t)))

\* the protocol call the command vocabulary assigns to each transport command
Dispatched(name) ==
    CASE name = PAUSE   -> [command |-> <<"cycle", "pause">>, path |-> <<>>]
      [] name = STOP    -> [command |-> <<"stop">>, path |-> <<>>]
      [] name = VOLUP   -> [command |-> <<"add", "volume", "5">>, path |-> <<>>]
      [] name = VOLDOWN -> [command |-> <<"add", "volume", "-5">>, path |-> <<>>]
      [] name = MUTE    -> [command |-> <<"cycle", "mute">>, path |-> <<>>]
      [] name = FWD     -> [command |-> <<"seek", "10", "relative">>, path |-> <<>>]
      [] name = RWD     -> [command |-> <<"seek", "-10", "relative">>, path |-> <<>>]

Issued(s) == {s[i] : i \in 1..Len(s)}

\* the media files a scan text names: a regular file whose name is a stem
\* equal to the text up to letter case, followed by a supported extension
Playable(t) ==
    { f \in mediaDir :
        /\ f.is_file
        /\ \E k \in 1..Len(f.name) :
              /\ lower(SubSeq(f.name, 1, k)) = lower(t)
              /\ lower(SubSeq(f.name, k + 1, Len(f.name))) \in VIDEO_EXTENSIONS }

\* C1: a scan whose text contains "/" or ".." issues no control-protocol call
\* and leaves the shutdown flag as it was, whatever else the text contains.
C1_UnsafeScanInert ==
    [][\A t \in Texts :
          (HasSlashOrDotDot(t) /\ handle_scan(t))
              => (calls' = <<>> /\ _shutting_down' = _shutting_down)]_vars

C1_Witness ==
    /\ log = <<"Rejected suspicious scan input", T_CMD_EXIT_up>>
    /\ _last_scan_text = T_CMD_EXIT_up
    /\ calls = <<>>
    /\ ~_shutting_down

\* C2: a scan is dropped by the debounce step, changing nothing and calling
\* nothing, exactly when it repeats the last-accepted text inside the window;
\* otherwise it becomes the new last-accepted (text, time) pair.
C2_DebounceExact ==
    [][\A t \in Texts :
          handle_scan(t) =>
              IF InsideWindow(t)
              THEN /\ log' = <<"Debounced duplicate scan", t>>
                   /\ calls' = <<>>
                   /\ UNCHANGED <<_last_scan_text, _last_scan_time, _shutting_down>>
              ELSE /\ log'[1] # "Debounced duplicate scan"
                   /\ _last_scan_text' = t
                   /\ _last_scan_time' = monotonic]_vars

\* the same text: dropped one second after it was accepted
C2_Witness ==
    /\ log = <<"Debounced duplicate scan", T_bambi>>
    /\ _last_scan_text = T_bambi
    /\ monotonic - _last_scan_time = 1

\* the same text accepted again once the window has elapsed
C2_WitnessAfterWindow ==
    /\ log = <<"No video found for", T_dumbo>>
    /\ _last_scan_text = T_dumbo
    /\ _last_scan_time = SCAN_DEBOUNCE_SECONDS
    /\ monotonic = SCAN_DEBOUNCE_SECONDS

\* C3: an accepted, safe scan with the command prefix dispatches the action of
\* its command (EXIT sets the shutdown flag); an unknown command calls nothing
\* and leaves the flag; in no case is the text looked up as a media file.
C3_CommandDispatch ==
    [][\A t \in Texts :
          (handle_scan(t) /\ ~InsideWindow(t) /\ ~HasSlashOrDotDot(t) /\ HasPrefix(t))
              => /\ IF Remainder(t) = EXIT
                    THEN _shutting_down' = TRUE /\ calls' = <<>>
                    ELSE IF Remainder(t) \in {PAUSE, STOP, VOLUP, VOLDOWN, MUTE, FWD, RWD}
                         THEN /\ Dispatched(Remainder(t)) \in Issued(calls')
                              /\ Dispatched(Remainder(t)) = calls'[1]
                              /\ _shutting_down' = _shutting_down
                         ELSE /\ calls' = <<>>
                              /\ _shutting_down' = _shutting_down
                 /\ \A c \in Issued(calls') : ~startswith(c.path, MEDIA_DIR)
                 /\ log'[1] \notin {"Playing", "No video found for"}]_vars

C3_Witness ==
    /\ _last_scan_text = T_Cmd_VolUp
    /\ log = <<"Executing command", VOLUP>>
    /\ calls = << [command |-> <<"add", "volume", "5">>, path |-> <<>>] >>

\* an unknown command that is also the stem of a media file
C3_WitnessUnknown ==
    /\ _last_scan_text = T_CMD_FOO
    /\ log = <<"Unknown command", <<"F","O","O">> >>
    /\ \E f \in mediaDir : lower(stem(f.name)) = lower(T_CMD_FOO)
    /\ calls = <<>>

\* C4 as claimed: every invocation of handle_scan makes at most one
\* control-protocol call.
C4_AtMostOneCall ==
    [][\A t \in Texts : handle_scan(t) => Len(calls') <= 1]_vars

\* C4 as amended: every invocation of handle_scan makes at most one
\* control-protocol call, except an accepted STOP command, which makes two:
\* stop, then the load of the idle screen.
C4_AtMostOneCallButStop ==
    [][\A t \in Texts :
          handle_scan(t) =>
              \/ Len(calls') <= 1
              \/ /\ HasPrefix(t) /\ Remainder(t) = STOP /\ ~InsideWindow(t)
                 /\ calls' = << [command |-> <<"stop">>, path |-> <<>>],
                                [command |-> <<"loadfile">>, path |-> SPLASH_IMAGE] >>]_vars

C4_Witness ==
    /\ _last_scan_text = T_cmd_stop
    /\ log = <<"Showing splash screen", <<>> >>
    /\ Len(calls) = 2

\* C5: an accepted, safe scan without the command prefix issues exactly one
\* load call, with the path of a matching media file, when the media
\* directory holds one, and no call when it holds none.
C5_MediaResolution ==
    [][\A t \in Texts :
          (handle_scan(t) /\ ~InsideWindow(t) /\ ~HasSlashOrDotDot(t) /\ ~HasPrefix(t))
              => IF Playable(t) # {}
                 THEN \E f \in Playable(t) :
                        calls' = << [command |-> <<"loadfile">>,
                                     path |-> MEDIA_DIR \o f.name] >>
                 ELSE calls' = <<>>]_vars

\* "bambi" played from a directory that holds it only as bambi.MKV
C5_Witness ==
    /\ _last_scan_text = T_bambi
    /\ log[1] = "Playing"
    /\ mediaDir = {File(<<"b","a","m","b","i",".","M","K","V">>)}
    /\ calls = << [command |-> <<"loadfile">>,
                   path |-> MEDIA_DIR \o <<"b","a","m","b","i",".","M","K","V">>] >>

\* a stem with no playable file (a directory of that name does not count)
C5_WitnessNoFile ==
    /\ _last_scan_text = T_dumbo
    /\ log = <<"No video found for", T_dumbo>>
    /\ mediaDir = {Dir(<<"D","u","m","b","o",".","m","p","4">>)}
    /\ calls = <<>>

----------------------------------------------------------------------------
(* Claims about the keycode decoder *)

\* the characters of the mapped non-shift key-down events among evs, each
\* shifted or not by the shift state at its own key-down
RECURSIVE Typed(_, _)
Typed(s0, evs) ==
    IF evs = <<>> THEN <<>>
    ELSE LET before == SubSeq(evs, 1, Len(evs) - 1)
             e      == evs[Len(evs)]
         IN  Typed(s0, before) \o
               ( IF /\ e.type = "EV_KEY"
                    /\ e.value = 1
                    /\ e.code \notin {"KEY_LEFTSHIFT", "KEY_RIGHTSHIFT", "KEY_ENTER"}
                    /\ e.code \in DOMAIN KEYMAP
                 THEN << KEYMAP[e.code][IF ShiftAfter(s0, before) THEN 2 ELSE 1] >>
                 ELSE <<>> )

RECURSIVE Trim(_)
Trim(s) ==
    IF s = <<>> THEN <<>>
    ELSE IF Head(s) = " " THEN Trim(Tail(s))
    ELSE IF s[Len(s)] = " " THEN Trim(SubSeq(s, 1, Len(s) - 1))
    ELSE s

\* C6: an Enter key-down delivers at most one line, the trimmed characters of
\* the mapped non-shift key-down events since the previous Enter key-down,
\* each shifted by the shift state at its key-down, and nothing when that is
\* empty; no other event delivers a line or adds a character.
C6_DecodedLine ==
    /\ Len(delivered) <= 1
    /\ IF SegComplete
       THEN LET line == Trim(Typed(segShift, SubSeq(seg, 1, Len(seg) - 1)))
            IN  /\ delivered = IF line = <<>> THEN <<>> ELSE <<line>>
                /\ buffer = <<>>
       ELSE /\ delivered = <<>>
            /\ buffer = Typed(segShift, seg)

\* shift pressed, a key pressed and released, Enter: the shifted character
C6_Witness ==
    /\ seg = << Key("KEY_LEFTSHIFT", key_down), Key("KEY_A", key_down),
                Key("KEY_A", key_up), Key("KEY_ENTER", key_down) >>
    /\ delivered = << <<"A">> >>

\* a line of blanks delivers nothing
C6_WitnessBlank ==
    /\ seg = << Key("KEY_SPACE", key_down), Key("KEY_ENTER", key_down) >>
    /\ delivered = <<>>
    /\ buffer = <<>>

----------------------------------------------------------------------------
(* scanner.py: read_scans and _read_loop together, one reading session after *)
(* another.  The callback records the line it is given, as in SpecDecoder.   *)

\* read_scans, lines 81-85 and 87-92: no scanner is found, or the grab raises
\* OSError; the reconnect sleep begins
SessionSearchFails ==
    /\ At("input", {"search"})
    /\ task' = [task EXCEPT !["input"] = "retry_sleep"]
    /\ delivered' = <<>>
    /\ Quiet /\ UNCHANGED <<routerVars, buffer, shift, seg, segShift, left_over,
                             clientVars, monitorVars, orchRest, watch, envVars, idleVars>>

\* read_scans, lines 85 and 92: the sleep is over, continue
SessionRetry ==
    /\ At("input", {"retry_sleep"})
    /\ task' = [task EXCEPT !["input"] = "search"]
    /\ Quiet /\ UNCHANGED <<routerVars, decoderVars, clientVars, monitorVars, orchRest, watch,
                             envVars, idleVars>>

\* _read_loop with the buffer kept from the session before
SessionBegins_keeps_buffer ==
    /\ At("input", {"search"}) /\ scanner_attached
    /\ grabbed' = TRUE
    /\ task' = [task EXCEPT !["input"] = "reading"]
    /\ buffer' = left_over /\ shift' = FALSE
    /\ delivered' = <<>>
    /\ seg' = <<>> /\ segShift' = FALSE
    /\ Quiet /\ UNCHANGED <<routerVars, left_over, clientVars, monitorVars, orchRest, watch,
                             mpv_proc, signalled, socket_exists, keyboards,
                             scanner_attached, idleVars>>

\* read_scans, lines 81, 87-88 and 95, and _read_loop, lines 108-109: the
\* scanner is found and grabbed, and _read_loop begins with its own buffer
\* and shift state
SessionBegins ==
    /\ At("input", {"search"}) /\ scanner_attached
    /\ grabbed' = TRUE
    /\ task' = [task EXCEPT !["input"] = "reading"]
    /\ buffer' = <<>> /\ shift' = FALSE
    /\ delivered' = <<>>
    /\ seg' = <<>> /\ segShift' = FALSE
    /\ Quiet /\ UNCHANGED <<routerVars, left_over, clientVars, monitorVars, orchRest, watch,
                             mpv_proc, signalled, socket_exists, keyboards,
                             scanner_attached, idleVars>>

\* the events a session is fed
SessionEvents ==
    { Key("KEY_A", key_down), Key("KEY_A", key_up),
      Key("KEY_LEFTSHIFT", key_down), Key("KEY_LEFTSHIFT", key_up),
      Key("KEY_ENTER", key_down) }

\* _read_loop, lines 111-139: one event of the grabbed scanner
SessionEvent ==
    \E e \in SessionEvents :
        /\ At("input", {"reading"}) /\ scanner_attached
        /\ SegComplete \/ Len(seg) < MaxEvents \/ IsEnterDown(e)
        /\ _read_loop(e)
        /\ seg' = IF SegComplete THEN <<e>> ELSE Append(seg, e)
        /\ segShift' = IF SegComplete THEN ShiftAfter(segShift, seg) ELSE segShift
        /\ Quiet /\ UNCHANGED <<routerVars, orchVars, envVars, idleVars, clientVars, monitorVars,
                                 left_over>>

\* read_scans, lines 96-103: the scanner is gone and the read raises OSError,
\* or the event stream ends; _read_loop is left and its buffer and shift
\* state are no more, the device is released and the sleep begins
SessionEnds ==
    /\ At("input", {"reading"})
    /\ grabbed' = FALSE
    /\ task' = [task EXCEPT !["input"] = "finally_sleep"]
    /\ delivered' = <<>>
    /\ left_over' = buffer
    /\ buffer' = <<>> /\ shift' = FALSE
    /\ seg' = <<>> /\ segShift' = FALSE
    /\ Quiet /\ UNCHANGED <<routerVars, clientVars, monitorVars,
                             orchRest, watch, mpv_proc, signalled, socket_exists,
                             keyboards, scanner_attached, idleVars>>

\* run() is waiting at line 206 and read_scans has been created (line 203)
SessionInit ==
    /\ InitRouterVars
    /\ mediaDir = {}
    /\ InitDecoderVars
    /\ InitIdleVars
    /\ InitClientVars
    /\ InitMonitorVars
    /\ _keyboard_mode = FALSE
    /\ runPc = "waiting" /\ polls = 0 /\ teardowns = 0
    /\ task = [t \in TaskNames |-> IF t = "input" THEN "search" ELSE "none"]
    /\ watch = [k \in KeyboardIds |-> "none"]
    /\ mpv_proc = "running" /\ signalled = <<>> /\ socket_exists = TRUE
    /\ keyboards = {}
    /\ scanner_attached \in BOOLEAN
    /\ grabbed = FALSE

SessionNext ==
    \/ SessionSearchFails \/ SessionRetry \/ SessionBegins \/ SessionEvent
    \/ SessionEnds \/ FinallySleepEnds
    \/ ScannerAttached \/ ScannerDetached

SpecSession == SessionInit /\ [][SessionNext]_vars

----------------------------------------------------------------------------
(* player.py: _keyboard_exit_watcher and _monitor_keyboards over devices of  *)
(* several kinds.  Each device has the name and the capabilities evdev       *)
(* reports for it, and sends events of its own.                              *)

\* config.py, line 45
SCANNER_DEVICE_NAME == <<"S","C","A","N","N","E","R">>

\* InputDevice.name and InputDevice.capabilities(verbose=False) of each
\* device: two keyboards, the scanner, a remote control with an ESC key and
\* no letter keys, a lid switch with no keys at all
DeviceName ==
    [d \in DeviceIds |->
       CASE d = "kbd"     -> <<"U","S","B"," ","K","e","y","b","o","a","r","d">>
         [] d = "kbd2"    -> <<"A","T"," ","K","e","y","b","o","a","r","d">>
         [] d = "scanner" -> <<"H","I","D"," ","S","C","A","N","N","E","R">>
         [] d = "remote"  -> <<"I","R"," ","R","e","m","o","t","e">>
         [] OTHER         -> <<"L","i","d"," ","S","w","i","t","c","h">>]

DeviceCaps ==
    [d \in DeviceIds |->
       CASE d = "kbd"     -> ("EV_KEY" :> {"KEY_Q", "KEY_ESC", "KEY_A", "KEY_ENTER"})
         [] d = "kbd2"    -> ("EV_KEY" :> {"KEY_Q", "KEY_ESC", "KEY_A", "KEY_ENTER"})
         [] d = "scanner" -> ("EV_KEY" :> {"KEY_Q", "KEY_A", "KEY_ENTER"})
         [] d = "remote"  -> ("EV_KEY" :> {"KEY_ESC", "KEY_ENTER"})
         [] OTHER         -> ("EV_SW" :> {"SW_LID"})]

\* the events each device sends
DeviceEvents ==
    [d \in DeviceIds |->
       CASE d = "kbd"     -> KeyboardEvents
         [] d = "kbd2"    -> { Key("KEY_ESC", key_down), Key("KEY_A", key_down) }
         [] d = "scanner" -> { Key("KEY_Q", key_down), Key("KEY_Q", key_up),
                               Key("KEY_ENTER", key_down) }
         [] d = "remote"  -> { Key("KEY_ESC", key_down) }
         [] OTHER         -> { [type |-> "EV_SW", code |-> "SW_LID", value |-> 1] }]

\* the device test without the scanner-name test of lines 246-247
Selected_any_name(d) ==
    LET caps == DeviceCaps[d]
    IN  "EV_KEY" \in DOMAIN caps /\ "KEY_Q" \in caps["EV_KEY"]

\* _keyboard_exit_watcher, lines 246-251: the device is taken as a keyboard
Selected(d) ==
    /\ ~Contains(DeviceName[d], SCANNER_DEVICE_NAME)
    /\ LET caps == DeviceCaps[d]
       IN  "EV_KEY" \in DOMAIN caps /\ "KEY_Q" \in caps["EV_KEY"]

\* _keyboard_exit_watcher, lines 241-259, from the loop head, as
\* KeyboardExitLoop; w is the state of the _watch_one tasks on arrival
ExitKeysLoop(w) ==
    IF _shutting_down
    THEN /\ task' = [task EXCEPT !["_keyboard_exit_watcher"] = "done"]
         /\ watched' = w
    ELSE LET found == { d \in listed : Selected(d) }
         IN  IF found = {}
             THEN /\ task' = [task EXCEPT !["_keyboard_exit_watcher"] = "sleep"]
                  /\ watched' = w
             ELSE /\ task' = [task EXCEPT !["_keyboard_exit_watcher"] = "monitor"]
                  /\ watched' = [d \in DeviceIds |->
                                   IF d \in found THEN "reading"
                                   ELSE IF w[d] = "reading" THEN w[d] ELSE "none"]

\* the loop entered, or resumed after the sleep of line 254
ExitKeysScan ==
    /\ At("_keyboard_exit_watcher", {"sleep"})
    /\ ExitKeysLoop(watched)
    /\ Quiet /\ UNCHANGED <<routerVars, decoderVars, clientVars, orchRest, watch,
                             envVars, idleVars, listed>>
    /\ last_event' = <<>>

\* lines 244-248: opening a listed device raises OSError, outside any try
ExitKeysScanFails ==
    /\ At("_keyboard_exit_watcher", {"sleep"})
    /\ ~_shutting_down
    /\ listed # {}
    /\ task' = [task EXCEPT !["_keyboard_exit_watcher"] = "failed"]
    /\ Quiet /\ UNCHANGED <<routerVars, decoderVars, clientVars, orchRest, watch,
                             envVars, idleVars, listed, watched>>
    /\ last_event' = <<>>

\* _monitor_keyboards, lines 282-284: the first _watch_one task has ended
\* (returned or raised: asyncio.wait hands on neither); the others are
\* cancelled, and _keyboard_exit_watcher is back at its loop head
ExitKeysMonitorReturns ==
    /\ At("_keyboard_exit_watcher", {"monitor"})
    /\ \E d \in DeviceIds : watched[d] \in {"done", "failed"}
    /\ ExitKeysLoop([d \in DeviceIds |->
                        IF watched[d] = "reading" THEN "cancelled" ELSE watched[d]])
    /\ Quiet /\ UNCHANGED <<routerVars, decoderVars, clientVars, orchRest, watch,
                             envVars, idleVars, listed>>
    /\ last_event' = <<>>

\* a listed device sends an event; _watch_one, lines 272-279, when the
\* device is being watched
DeviceEvent ==
    \E d \in listed :
      \E event \in DeviceEvents[d] :
        /\ LoopRuns
        /\ last_event' = <<d, event>>
        /\ IF watched[d] # "reading"
           THEN UNCHANGED <<_shutting_down, watched>>
           ELSE IF _shutting_down
           THEN /\ watched' = [watched EXCEPT ![d] = "done"]
                /\ UNCHANGED _shutting_down
           ELSE IF event.type = "EV_KEY" /\ event.value = 1 /\ event.code \in EXIT_KEYS
           THEN /\ _shutting_down' = TRUE
                /\ watched' = [watched EXCEPT ![d] = "done"]
           ELSE UNCHANGED <<_shutting_down, watched>>
        /\ Quiet
        /\ UNCHANGED <<_last_scan_text, _last_scan_time, monotonic, mediaDir,
                       decoderVars, clientVars, orchRest, task, watch, envVars,
                       idleVars, listed>>

\* _watch_one, line 272: the watched device is gone, the read raises OSError
ExitKeysWatchFails ==
    \E d \in DeviceIds \ listed :
        /\ LoopRuns /\ watched[d] = "reading"
        /\ watched' = [watched EXCEPT ![d] = "failed"]
        /\ Quiet /\ UNCHANGED <<routerVars, decoderVars, clientVars, orchRest, task,
                                 watch, envVars, idleVars, listed>>
    /\ last_event' = <<>>

DevicePlugged ==
    \E d \in DeviceIds \ listed :
        /\ LoopRuns
        /\ listed' = listed \cup {d}
        /\ Quiet /\ UNCHANGED <<routerVars, decoderVars, clientVars, orchVars,
                                 envVars, idleVars, watched>>
        /\ last_event' = <<>>

DeviceUnplugged ==
    \E d \in listed :
        /\ LoopRuns
        /\ listed' = listed \ {d}
        /\ Quiet /\ UNCHANGED <<routerVars, decoderVars, clientVars, orchVars,
                                 envVars, idleVars, watched>>
        /\ last_event' = <<>>

\* run() is waiting at line 206 and _keyboard_exit_watcher has been created
\* (line 198)
ExitKeysInit ==
    /\ InitRouterVars
    /\ mediaDir = {}
    /\ InitDecoderVars
    /\ InitIdleVars
    /\ InitClientVars
    /\ _keyboard_mode = FALSE
    /\ runPc = "waiting" /\ polls = 0 /\ teardowns = 0
    /\ task = [t \in TaskNames |->
                 IF t = "_keyboard_exit_watcher" THEN "sleep" ELSE "none"]
    /\ watch = [k \in KeyboardIds |-> "none"]
    /\ mpv_proc = "running" /\ signalled = <<>> /\ socket_exists = TRUE
    /\ keyboards = {} /\ scanner_attached = FALSE /\ grabbed = FALSE
    /\ listed \in SUBSET DeviceIds
    /\ watched = [d \in DeviceIds |-> "none"]
    /\ last_event = <<>>

ExitKeysNext ==
    \/ ExitKeysScan \/ ExitKeysScanFails \/ ExitKeysMonitorReturns
    \/ DeviceEvent \/ ExitKeysWatchFails
    \/ DevicePlugged \/ DeviceUnplugged

SpecExitKeys == ExitKeysInit /\ [][ExitKeysNext]_vars

----------------------------------------------------------------------------
(* mpv_control.py: one helper call, from the socket to the return.  The      *)
(* helpers are plain functions: the loop's one thread is inside the call    *)
(* until it returns, so a call begins only when none is running.            *)

\* json.loads on the first line of the data, for the lines the far end sends:
\* the Python type of the value, its truth value, and for an object the values
\* .get("error") and .get("data") give ("None" when the key is absent)
JsonTable ==
    { [text |-> "{\"error\":\"success\"}",
       type |-> "dict", truthy |-> TRUE, error |-> "success", data |-> "None"],
      [text |-> "{\"error\":\"success\",\"data\":true}",
       type |-> "dict", truthy |-> TRUE, error |-> "success", data |-> "True"],
      [text |-> "{\"error\":\"success\",\"data\":false}",
       type |-> "dict", truthy |-> TRUE, error |-> "success", data |-> "False"],
      [text |-> "{\"error\":\"property unavailable\"}",
       type |-> "dict", truthy |-> TRUE, error |-> "property unavailable", data |-> "None"],
      [text |-> "{\"error\":\"Success\"}",
       type |-> "dict", truthy |-> TRUE, error |-> "Success", data |-> "None"],
      [text |-> "{\"data\":true}",
       type |-> "dict", truthy |-> TRUE, error |-> "None", data |-> "True"],
      [text |-> "{}",
       type |-> "dict", truthy |-> FALSE, error |-> "None", data |-> "None"],
      [text |-> "[]",
       type |-> "list", truthy |-> FALSE, error |-> "", data |-> ""],
      [text |-> "[\"success\"]",
       type |-> "list", truthy |-> TRUE, error |-> "", data |-> ""],
      [text |-> "\"success\"",
       type |-> "str", truthy |-> TRUE, error |-> "", data |-> ""],
      [text |-> "0",
       type |-> "int", truthy |-> FALSE, error |-> "", data |-> ""],
      [text |-> "1",
       type |-> "int", truthy |-> TRUE, error |-> "", data |-> ""],
      [text |-> "true",
       type |-> "bool", truthy |-> TRUE, error |-> "", data |-> ""],
      [text |-> "null",
       type |-> "NoneType", truthy |-> FALSE, error |-> "", data |-> ""],
      [text |-> "{\"error\":",
       type |-> "JSONDecodeError", truthy |-> FALSE, error |-> "", data |-> ""],
      [text |-> "\n",
       type |-> "JSONDecodeError", truthy |-> FALSE, error |-> "", data |-> ""] }

loads(text) == CHOOSE j \in JsonTable : j.text = text

None == [text |-> "", type |-> "NoneType", truthy |-> FALSE, error |-> "", data |-> ""]

\* what the far end does in one exchange: the exception that ends it (line 18,
\* 19 or 22), or the data received; neither when it closes having sent nothing
Faults == {"FileNotFoundError", "ConnectionRefusedError", "timeout",
           "BrokenPipeError", "ConnectionResetError"}

Replies ==
    { [fault |-> f, data |-> ""] : f \in Faults \cup {""} }
    \cup { [fault |-> "", data |-> j.text] : j \in JsonTable }

\* _send, lines 26-32: the response handed to the helper
_send(r) ==
    IF r.fault # "" \/ r.data = "" THEN None
    ELSE IF loads(r.data).type = "JSONDecodeError" THEN None
    ELSE loads(r.data)

\* _send, lines 28-31: what it logs
SendLog(r) ==
    IF r.fault \in {"ConnectionRefusedError", "FileNotFoundError"}
    THEN <<"mpv socket not available", <<>> >>
    ELSE IF r.fault # "" \/ (r.data # "" /\ loads(r.data).type = "JSONDecodeError")
    THEN <<"mpv IPC error", <<>> >>
    ELSE NoLog

\* the helpers that answer with a bool by the expression of line 38
BoolHelpers == {"load_file", "stop", "pause_toggle", "volume_up", "volume_down",
                "mute_toggle", "seek"}

Helpers == BoolHelpers \cup {"get_property", "is_idle"}

\* lines 38, 44, 50, 56, 62, 68, 74:
\* resp is not None and resp.get("error") == "success"
BoolResult(resp) ==
    IF resp.type = "NoneType" THEN "False"
    ELSE IF resp.type # "dict" THEN "AttributeError"
    ELSE IF resp.error = "success" THEN "True" ELSE "False"

\* get_property, lines 80-82
PropertyResult(resp) ==
    IF ~resp.truthy THEN "None"
    ELSE IF resp.type # "dict" THEN "AttributeError"
    ELSE IF resp.error = "success" THEN resp.data ELSE "None"

\* is_idle, lines 87-88: val is True
IdleResult(resp) ==
    LET val == PropertyResult(resp)
    IN  IF val = "AttributeError" THEN val
        ELSE IF val = "True" THEN "True" ELSE "False"

HelperResult(h, resp) ==
    IF h \in BoolHelpers THEN BoolResult(resp)
    ELSE IF h = "get_property" THEN PropertyResult(resp)
    ELSE IdleResult(resp)

\* the helpers called through a worker thread: a call may begin while
\* another one is inside _send
ClientCall_in_thread ==
    \E h \in Helpers :
        /\ connections < 2
        /\ in_call' = h
        /\ connections' = connections + 1
        /\ result' = "pending"
        /\ Quiet
        /\ UNCHANGED <<routerVars, decoderVars, orchVars, envVars, idleVars, reply,
                       monitorVars>>

\* a helper is called by a coroutine of the one event loop, which it blocks
\* until it returns; _send creates its socket (line 16)
ClientCall ==
    \E h \in Helpers :
        /\ result # "pending"
        /\ in_call' = h
        /\ connections' = connections + 1
        /\ result' = "pending"
        /\ Quiet
        /\ UNCHANGED <<routerVars, decoderVars, orchVars, envVars, idleVars, reply,
                       monitorVars>>

\* lines 17-32 and the helper's return: the exchange goes as the far end
\* makes it go, the with block closes the socket on every way out, and the
\* helper returns or raises
ClientReturn ==
    \E r \in Replies :
        /\ result = "pending"
        /\ reply' = r
        /\ connections' = connections - 1
        /\ result' = HelperResult(in_call, _send(r))
        /\ calls' = <<>>
        /\ log' = SendLog(r)
        /\ UNCHANGED <<routerVars, decoderVars, orchVars, envVars, idleVars, in_call,
                       monitorVars>>

ClientInit ==
    /\ InitRouterVars
    /\ mediaDir = {}
    /\ InitDecoderVars
    /\ NotStarted

ClientNext == ClientCall \/ ClientReturn

SpecClient == ClientInit /\ [][ClientNext]_vars

----------------------------------------------------------------------------
(* player.py: idle_watcher with the answers of the player to its helper      *)
(* calls.  in_call, reply and result hold the latest helper call of the      *)
(* poll: is_idle, or the load_file of show_splash when the poll makes one.   *)

\* idle_watcher, lines 129-138 and the loop head after them: one poll.  r1 is
\* what the far end does in the exchange of is_idle (mpv_control.py:85-88),
\* r2 in that of load_file (player.py:55, mpv_control.py:35-38), whose result
\* show_splash drops.  A helper that raises ends the task.
IdlePollExchange ==
    \E r1 \in Replies, r2 \in Replies :
        /\ At("idle_watcher", {"sleep"})
        /\ LET val == IdleResult(_send(r1))
               res == HelperResult("load_file", _send(r2))
           IN  IF val = "AttributeError"
               THEN /\ calls' = <<is_idle>>
                    /\ in_call' = "is_idle" /\ reply' = r1 /\ result' = val
                    /\ task' = [task EXCEPT !["idle_watcher"] = "failed"]
                    /\ UNCHANGED <<idleVars>>
               ELSE IF val = "True" /\ Refresh(minute)
               THEN /\ calls' = <<is_idle, show_splash>>
                    /\ in_call' = "load_file" /\ reply' = r2 /\ result' = res
                    /\ was_idle' = TRUE
                    /\ IF res = "AttributeError"
                       THEN /\ task' = [task EXCEPT !["idle_watcher"] = "failed"]
                            /\ UNCHANGED <<splash_showing, last_minute, shown_at,
                                           minute>>
                       ELSE /\ splash_showing' = TRUE
                            /\ last_minute' = minute
                            /\ shown_at' = minute
                            /\ task' = [task EXCEPT !["idle_watcher"] =
                                          LoopHead(_shutting_down, "sleep")]
                            /\ UNCHANGED minute
               ELSE /\ calls' = <<is_idle>>
                    /\ in_call' = "is_idle" /\ reply' = r1 /\ result' = val
                    /\ was_idle' = (val = "True")
                    /\ IF val = "True"
                       THEN UNCHANGED <<splash_showing, last_minute>>
                       ELSE splash_showing' = FALSE /\ last_minute' = -1
                    /\ task' = [task EXCEPT !["idle_watcher"] =
                                  LoopHead(_shutting_down, "sleep")]
                    /\ UNCHANGED <<shown_at, minute>>
        /\ log' = NoLog
        /\ UNCHANGED <<_last_scan_text, _last_scan_time, _shutting_down, monotonic,
                       mediaDir, decoderVars, connections, monitorVars, orchRest,
                       watch, envVars>>

IdleLoadNext ==
    \/ MpvCreatesSocket \/ RunPoll
    \/ IdleWatcherStarts \/ IdlePollExchange
    \/ MinuteTick
    \/ _signal_shutdown

SpecIdleLoad == IdleInit /\ [][IdleLoadNext]_vars

----------------------------------------------------------------------------
(* Claims on the control protocol client, under SpecClient *)

\* the far end returned a response object whose error field is "success"
FarEndSuccess ==
    /\ reply.fault = ""
    /\ reply.data \in { "{\"error\":\"success\"}",
                        "{\"error\":\"success\",\"data\":true}",
                        "{\"error\":\"success\",\"data\":false}" }

Returned == in_call # "none" /\ result # "pending"

\* C11 as stated: a helper never raises to its caller; a helper that answers
\* with a bool answers True exactly when the far end returned an object whose
\* error field is "success"; the property read and the idle query answer None
\* or False in every other case.
C11_HelpersTotal ==
    Returned =>
        /\ result # "AttributeError"
        /\ in_call \in BoolHelpers => (result = "True" <=> FarEndSuccess)
        /\ (in_call \notin BoolHelpers /\ ~FarEndSuccess) => result \in {"None", "False"}

\* what does hold: a helper raises only on a JSON value that is no object,
\* and answers as C11 says whenever it does not raise
C11_RaisesOnlyOnNonObject ==
    Returned =>
        IF result = "AttributeError"
        THEN reply.data \in {"[]", "[\"success\"]", "\"success\"", "0", "1", "true"}
        ELSE /\ in_call \in BoolHelpers => (result = "True" <=> FarEndSuccess)
             /\ (in_call \notin BoolHelpers /\ ~FarEndSuccess)
                   => result \in {"None", "False"}

\* load_file answered by a JSON array: AttributeError reaches the caller
C11_WitnessRaised ==
    /\ in_call = "load_file"
    /\ reply = [fault |-> "", data |-> "[\"success\"]"]
    /\ result = "AttributeError"

----------------------------------------------------------------------------
(* Claims on the shutdown flag and the orchestrator, under Spec and FairSpec *)

\* the four triggers, as a step shows them
SetByExitCommand ==
    /\ task["input"] \in {"readline", "reading"}
    /\ log' = <<"EXIT command received, shutting down", <<>> >>
    /\ _last_scan_text' = T_CMD_EXIT

SetByLivenessMonitor ==
    /\ mpv_proc = "exited"
    /\ task["_mpv_watcher"] = "sleep" /\ task'["_mpv_watcher"] = "done"

SetByExitKey ==
    \E k \in keyboards : watch[k] = "reading" /\ watch'[k] = "done"

SetBySignal ==
    /\ runPc \in {"waiting", "awaiting"}
    /\ UNCHANGED <<_last_scan_text, _last_scan_time, task, watch, runPc>>
    /\ log' = NoLog

\* C7: the shutdown flag never goes from true to false (so it rises at most
\* once), and a step that raises it is an EXIT command handled by handle_scan,
\* _mpv_watcher finding the player process exited, _watch_one reading an exit
\* key, or the signal handler.
C7_FlagMonotonic ==
    [][/\ _shutting_down => _shutting_down'
       /\ (~_shutting_down /\ _shutting_down')
             => \/ SetByExitCommand
                \/ SetByLivenessMonitor
                \/ SetByExitKey
                \/ SetBySignal]_vars

\* the flag raised by an EXIT command the scanner delivered
C7_Witness ==
    /\ _shutting_down
    /\ ~_keyboard_mode /\ task["input"] = "reading"
    /\ log = <<"EXIT command received, shutting down", <<>> >>

\* the flag raised by _mpv_watcher
C7_WitnessLiveness ==
    /\ _shutting_down /\ runPc = "waiting"
    /\ _last_scan_text = <<>>
    /\ task["_mpv_watcher"] = "done"
    /\ \A t \in TaskNames \ {"_mpv_watcher"} : task[t] \notin Ended
    /\ \A k \in KeyboardIds : watch[k] # "done"

\* run() has finished: the loop is closed, nothing is left running, teardown
\* ran once and the player process is gone
Converged ==
    /\ runPc = "closed"
    /\ \A t \in TaskNames : task[t] \in Ended
    /\ \A k \in KeyboardIds : watch[k] # "reading"
    /\ teardowns = 1
    /\ mpv_proc = "exited"

\* C8: under fair scheduling, once the flag is up in the watcher phase, run()
\* leaves its wait, every task ends or is cancelled, and teardown runs once.
C8_ShutdownConverges ==
    (_shutting_down /\ runPc = "waiting") ~> Converged

\* teardown never runs twice
C8_TeardownAtMostOnce == teardowns <= 1

\* converged after a cancelled read_scans went through its finally block
C8_Witness ==
    /\ _shutting_down /\ Converged
    /\ ~_keyboard_mode /\ task["input"] = "cancelled" /\ ~grabbed
    /\ signalled = <<"terminate", "kill">>

\* the step in which run() goes from its wait to cancelling the tasks
BeginsTeardown == runPc = "waiting" /\ runPc' = "awaiting"

\* C9 as stated: run() begins teardown only with the shutdown flag up.
C9_TeardownOnlyWhenFlag ==
    [][BeginsTeardown => _shutting_down]_vars

\* C9, amended: run() begins teardown only with the shutdown flag up, or when
\* every task that has ended has ended without the flag: the test input at its
\* end of input, or a task that raised an error nothing handled.
C9_TeardownOnlyWhenFlagOrTaskEnded ==
    [][BeginsTeardown =>
         \/ _shutting_down
         \/ /\ \E t \in TaskNames : task[t] \in Ended
            /\ \A t \in TaskNames :
                 task[t] \in Ended =>
                    \/ task[t] = "failed"
                    \/ t = "input" /\ _keyboard_mode /\ task[t] = "done"]_vars

\* teardown begun with the flag up
C9_Witness ==
    /\ runPc = "awaiting" /\ _shutting_down
    /\ task["shutdown_watcher"] = "done"

\* teardown begun at the end of the test input, the flag down
C9_WitnessEndOfInput ==
    /\ runPc = "grace" /\ ~_shutting_down
    /\ _keyboard_mode /\ task["input"] = "done"

\* teardown begun after find_scanner raised, the flag down
C9_WitnessTaskFailed ==
    /\ runPc = "grace" /\ ~_shutting_down
    /\ ~_keyboard_mode /\ task["input"] = "failed"

\* C12: every step that takes read_scans out of reading releases the scanner,
\* whether by an I/O error, the end of the event stream, an exception out of
\* the callback or cancellation; read_scans never searches, and never has
\* ended, with the scanner still grabbed.
C12_UngrabOnEveryPath ==
    /\ [][(task["input"] = "reading" /\ task'["input"] # "reading") => ~grabbed']_vars
    /\ [](task["input"] \in Ended \cup {"search"} => ~grabbed)

\* read_scans cancelled while it was reading: released, in its finally block
C12_Witness ==
    /\ ~_keyboard_mode /\ task["input"] = "finally_cancelled"
    /\ scanner_attached /\ ~grabbed
    /\ runPc = "awaiting"

\* read_scans ended by an exception out of the callback, the scanner released
C12_WitnessCallbackRaised ==
    /\ ~_keyboard_mode /\ task["input"] = "failed"
    /\ _last_scan_text = T_bambi /\ ~grabbed

\* the step in which run() goes on to the teardown of the player process
ProceedsToTeardown == teardowns' = teardowns + 1

\* C13 as stated: when run() goes on to the teardown of the player process,
\* every task created during the run has ended, the _watch_one tasks of
\* _keyboard_exit_watcher included.
C13_NoTaskAliveAtTeardown ==
    [][ProceedsToTeardown =>
         /\ \A t \in TaskNames : task[t] \in Ended
         /\ \A k \in KeyboardIds : watch[k] # "reading"]_vars

\* what does hold: the tasks run() itself created have ended by then
C13_RunTasksEndedAtTeardown ==
    [][ProceedsToTeardown => \A t \in TaskNames : task[t] \in Ended]_vars

\* teardown reached with _keyboard_exit_watcher cancelled and its _watch_one
\* task still reading the keyboard
C13_WitnessOrphan ==
    /\ runPc = "grace"
    /\ task["_keyboard_exit_watcher"] = "cancelled"
    /\ watch["kbd"] = "reading"

\* run() has not entered the watcher phase
BeforeWatcherPhase ==
    \/ runPc \in {"startup", "returned"}
    \/ runPc = "closed" /\ teardowns = 0

\* C15: run() gives up only after SocketPolls polls that found no socket, and
\* then has shown no idle screen, started no task and installed no signal
\* handler (nothing raises the flag); a poll that finds the socket ends the
\* polling and enters the watcher phase.
C15_FatalStartup ==
    /\ [](BeforeWatcherPhase =>
             /\ \A t \in TaskNames : task[t] = "none"
             /\ \A k \in KeyboardIds : watch[k] = "none"
             /\ ~_shutting_down /\ calls = <<>>)
    /\ [][runPc = "startup" /\ runPc' = "returned" => polls = SocketPolls]_vars
    /\ [][(runPc = "startup" /\ polls < SocketPolls /\ socket_exists
            /\ <<runPc, polls>>' # <<runPc, polls>>)
           => /\ runPc' = "waiting"
              /\ calls' = <<show_splash>>
              /\ \A t \in TaskNames : task'[t] \notin Ended \cup {"none"}]_vars
    /\ [][(runPc = "startup" /\ runPc' = "waiting") => socket_exists]_vars

\* run() returned after twenty polls without a socket
C15_Witness ==
    /\ runPc = "returned" /\ polls = SocketPolls
    /\ ~socket_exists
    /\ signalled = <<"terminate">>

\* the socket found at the last poll: the watcher phase
C15_WitnessLastPoll ==
    /\ runPc = "waiting" /\ socket_exists
    /\ calls = <<show_splash>>
    /\ task["shutdown_watcher"] = "sleep"

C16_WitnessRaised ==
    /\ Returned /\ result = "AttributeError"
    /\ connections = 0

\* a scan has passed the debounce step of handle_scan
ScanAccepted ==
    <<_last_scan_text, _last_scan_time>>' # <<_last_scan_text, _last_scan_time>>

\* C18 as stated: once _shutting_down is true, a scan delivered to
\* handle_scan, by the scanner or by the test input, results in no
\* control-protocol call.
C18_NoCallAfterFlag ==
    [][(_shutting_down /\ ScanAccepted) => calls' = <<>>]_vars

\* the flag was up, and a scan has loaded a file all the same
C18_WitnessCallAfterFlag ==
    /\ _shutting_down
    /\ _last_scan_text = T_bambi
    /\ calls # <<>>
    /\ task["shutdown_watcher"] = "sleep"

\* what does hold: the test input reads no further line once a scan of its
\* own has raised the flag
C18_ExitEndsKeyboardReader ==
    [][(_keyboard_mode /\ ~_shutting_down /\ _shutting_down' /\ ScanAccepted)
       => task'["input"] = "done"]_vars

\* C20: kill is sent to the player process only from the grace period, with
\* the process still running, and right after the terminate that began that
\* period; when teardown begins with the process already gone, nothing is
\* sent to it, then or later.
C20_TeardownEscalation ==
    /\ [][(signalled' # signalled /\ signalled'[Len(signalled')] = "kill")
           => /\ runPc = "grace" /\ mpv_proc = "running"
              /\ signalled # <<>>
              /\ signalled[Len(signalled)] = "terminate"
              /\ signalled' = Append(signalled, "kill")]_vars
    /\ [][(teardowns' # teardowns /\ mpv_proc = "exited")
           => signalled' = signalled /\ runPc' = "done"]_vars
    /\ [][(teardowns' # teardowns /\ mpv_proc = "running")
           => signalled' = Append(signalled, "terminate") /\ runPc' = "grace"]_vars
    /\ [][(runPc \in {"done", "closed", "returned"})
           => UNCHANGED signalled]_vars
    /\ [](runPc = "grace" => signalled = <<"terminate">>)

\* the grace period expired: terminate, then kill
C20_Witness ==
    /\ runPc = "done" /\ teardowns = 1
    /\ signalled = <<"terminate", "kill">>
    /\ mpv_proc = "exited"

\* the process was gone when teardown began: nothing sent
C20_WitnessAlreadyExited ==
    /\ runPc = "done" /\ teardowns = 1
    /\ signalled = <<>>
    /\ mpv_proc = "exited"

----------------------------------------------------------------------------
(* Claims on the idle screen and its loads, under SpecIdleLoad *)

\* the poll just made has loaded the idle screen, and the load has returned
IdleLoadReturned ==
    /\ calls' = <<is_idle, show_splash>>
    /\ in_call' = "load_file"
    /\ result' \in {"True", "False"}

\* C22 as stated: a load of the idle screen that failed is not recorded as
\* showing, so that the next idle poll loads it again.
C22_FailedLoadNotShowing ==
    [][(IdleLoadReturned /\ result' = "False") => ~splash_showing']_vars

\* a load has failed and the idle screen counts as showing
C22_WitnessFailedShowing ==
    /\ calls = <<is_idle, show_splash>>
    /\ in_call = "load_file" /\ result = "False"
    /\ reply.fault = "timeout"
    /\ splash_showing /\ last_minute = minute

\* what does hold: every load of the idle screen that returns, whatever it
\* returns, is recorded as showing in the minute of the poll
C22_EveryLoadShowing ==
    [][IdleLoadReturned => (splash_showing' /\ last_minute' = minute)]_vars

----------------------------------------------------------------------------
(* Claims on the exit-key monitor, under SpecExitKeys *)

\* the event is a key-down of Q or ESC
IsExitKeyDown(e) ==
    e.type = "EV_KEY" /\ e.value = 1 /\ e.code \in {"KEY_Q", "KEY_ESC"}

\* C21: the monitor raises the flag only on a key-down of an exit key sent by
\* a device it watches, which has key capability and no scanner name; the
\* scanner is never watched, an event that is no exit key-down leaves the
\* flag alone, and every exit key-down on a watched device raises it.
C21_ExitKeyOnly ==
    /\ [][(~_shutting_down /\ _shutting_down')
           => /\ last_event' # <<>>
              /\ IsExitKeyDown(last_event'[2])
              /\ watched[last_event'[1]] = "reading"
              /\ "EV_KEY" \in DOMAIN DeviceCaps[last_event'[1]]
              /\ ~Contains(DeviceName[last_event'[1]], SCANNER_DEVICE_NAME)]_vars
    /\ [](watched["scanner"] = "none")
    /\ [][(last_event' # <<>> /\ IsExitKeyDown(last_event'[2])
            /\ watched[last_event'[1]] = "reading")
           => _shutting_down']_vars

\* ESC pressed on a watched keyboard: the flag is up
C21_Witness ==
    /\ last_event = <<"kbd2", Key("KEY_ESC", key_down)>>
    /\ watched["kbd2"] = "done"
    /\ _shutting_down

\* the scanner sends a q while a keyboard is watched: the flag stays down
C21_WitnessScannerQ ==
    /\ last_event = <<"scanner", Key("KEY_Q", key_down)>>
    /\ watched["kbd"] = "reading"
    /\ ~_shutting_down

\* a repeat event of ESC on a watched keyboard: the flag stays down
C21_WitnessRepeat ==
    /\ last_event = <<"kbd", Key("KEY_ESC", key_hold)>>
    /\ watched["kbd"] = "reading"
    /\ ~_shutting_down

\* _monitor_keyboards returns to _keyboard_exit_watcher after a _watch_one
\* task has failed on its device, the flag being down
ReturnsAfterIOError ==
    /\ ~_shutting_down
    /\ task["_keyboard_exit_watcher"] = "monitor"
    /\ \E d \in DeviceIds : watched[d] = "failed" /\ watched'[d] # "failed"

\* C23 as stated: after an I/O error on a watched keyboard the monitor does
\* not end and does not raise the flag; it sleeps for the rescan delay before
\* it lists the devices again.
C23_RescanAfterDelay ==
    [][ReturnsAfterIOError
       => /\ ~_shutting_down'
          /\ task'["_keyboard_exit_watcher"] = "sleep"
          /\ \A d \in DeviceIds : watched'[d] # "reading"]_vars

\* a watched keyboard has failed while another keyboard is listed
C23_WitnessIOError ==
    /\ ~_shutting_down
    /\ task["_keyboard_exit_watcher"] = "monitor"
    /\ watched["kbd"] = "failed" /\ "kbd" \notin listed
    /\ watched["kbd2"] = "reading" /\ "kbd2" \in listed

\* what does hold: after an I/O error the monitor does not end and does not
\* raise the flag; it lists the devices again at once, and sleeps only when
\* it finds no keyboard
C23_RescanAtOnce ==
    [][ReturnsAfterIOError
       => /\ ~_shutting_down'
          /\ IF \E d \in listed : d \in {"kbd", "kbd2"}
             THEN /\ task'["_keyboard_exit_watcher"] = "monitor"
                  /\ \A d \in listed \cap {"kbd", "kbd2"} : watched'[d] = "reading"
             ELSE task'["_keyboard_exit_watcher"] = "sleep"]_vars

----------------------------------------------------------------------------
(* Claims on the debounce state, under SpecFrame *)

\* C19: _last_scan_text and _last_scan_time are written only by a scan that
\* passes the debounce step, and then hold that scan's text and time, also
\* when the scan is turned down as unsafe, as an unknown command or as
\* matching no file; a debounced scan leaves them alone, and so does every
\* step that is no scan and every step once run() has left its wait; they are
\* never set back to their initial value.
C19_DebounceStateFrame ==
    /\ [][log'[1] \in {"Rejected suspicious scan input", "No video found for"}
           => /\ _last_scan_text' = log'[2]
              /\ _last_scan_time' = monotonic]_vars
    /\ [][log'[1] = "Unknown command"
           => /\ upper(_last_scan_text') = COMMAND_PREFIX \o log'[2]
              /\ _last_scan_time' = monotonic]_vars
    /\ [][log'[1] = "Debounced duplicate scan"
           => /\ UNCHANGED <<_last_scan_text, _last_scan_time>>
              /\ log'[2] = _last_scan_text]_vars
    /\ [][ScanAccepted
           => /\ task["input"] \in {"reading", "readline"}
              /\ log'[1] \in {"Rejected suspicious scan input", "Unknown command",
                               "No video found for", "Playing",
                               "EXIT command received, shutting down"}
              /\ _last_scan_text' # <<>>
              /\ _last_scan_time' = monotonic]_vars
    /\ [][runPc # "waiting" => ~ScanAccepted]_vars
    /\ [][_last_scan_text # <<>> => _last_scan_text' # <<>>]_vars

\* an unsafe scan turned down at time 1 is the last-accepted scan
C19_Witness ==
    /\ log = <<"Rejected suspicious scan input", T_a_slash_b>>
    /\ _last_scan_text = T_a_slash_b
    /\ _last_scan_time = 1
    /\ calls = <<>>

\* an unknown command is the last-accepted scan
C19_WitnessUnknown ==
    /\ log = <<"Unknown command", <<"F", "O", "O">> >>
    /\ _last_scan_text = T_CMD_FOO

\* a name matching no file is the last-accepted scan
C19_WitnessNoFile ==
    /\ log = <<"No video found for", T_dumbo>>
    /\ _last_scan_text = T_dumbo

----------------------------------------------------------------------------
(* Claims on the reading sessions, under SpecSession *)

\* the moves of read_scans between searching, the two sleeps and reading
SessionMoves ==
    { <<"search", "retry_sleep">>, <<"retry_sleep", "search">>,
      <<"search", "reading">>, <<"reading", "finally_sleep">>,
      <<"finally_sleep", "search">> }

\* C17: read_scans goes from searching to reading and back to searching; the
\* callback is given a line only while it reads, and it reads exactly while
\* the device is grabbed; a search that fails goes back to searching after
\* the sleep, with no line delivered; a session begins with an empty buffer
\* and shift off, and a line it delivers is made of the events of that
\* session alone.
C17_ReadingSessions ==
    /\ [](delivered # <<>> => task["input"] = "reading" /\ grabbed)
    /\ [](task["input"] = "reading" <=> grabbed)
    /\ [][task'["input"] # task["input"]
           => <<task["input"], task'["input"]>> \in SessionMoves]_vars
    /\ [][task["input"] \in {"search", "retry_sleep"} => delivered' = <<>>]_vars
    /\ [][(task["input"] # "reading" /\ task'["input"] = "reading")
           => buffer' = <<>> /\ ~shift']_vars
    /\ [](task["input"] = "reading" =>
             IF SegComplete
             THEN LET line == Trim(Typed(segShift, SubSeq(seg, 1, Len(seg) - 1)))
                  IN  delivered = IF line = <<>> THEN <<>> ELSE <<line>>
             ELSE delivered = <<>> /\ buffer = Typed(segShift, seg))

\* the session before ended with "A" in its buffer; this one delivers "a"
C17_Witness ==
    /\ task["input"] = "reading" /\ grabbed
    /\ left_over = <<"A">>
    /\ seg = << Key("KEY_A", key_down), Key("KEY_ENTER", key_down) >>
    /\ delivered = << <<"a">> >>

\* a search that failed, asleep before the next one
C17_WitnessRetry ==
    /\ task["input"] = "retry_sleep" /\ ~grabbed
    /\ left_over # <<>>

----------------------------------------------------------------------------
(* Claims on the watchers left to themselves, under FairWatchers *)

\* C14 as stated: once the flag is up, each of the four watchers that has not
\* ended returns on its own at its next poll, whatever the devices do.
C14_WatchersObserveFlag ==
    \A w \in {"idle_watcher", "_mpv_watcher", "_keyboard_exit_watcher",
              "shutdown_watcher"} :
        (_shutting_down /\ task[w] \notin Ended \cup {"none"}) ~> (task[w] = "done")

\* what does hold: idle_watcher, _mpv_watcher and shutdown_watcher return on
\* their own, and so does _keyboard_exit_watcher when it is not waiting for a
\* _watch_one task
C14_PollingWatchersObserveFlag ==
    /\ \A w \in {"idle_watcher", "_mpv_watcher", "shutdown_watcher"} :
          (_shutting_down /\ task[w] \notin Ended \cup {"none"}) ~> (task[w] = "done")
    /\ (_shutting_down /\ task["_keyboard_exit_watcher"] = "sleep")
          ~> (task["_keyboard_exit_watcher"] = "done")

\* the flag up, the three polling watchers returned, _keyboard_exit_watcher
\* still waiting for a key event of the keyboard it watches
C14_WitnessStillMonitoring ==
    /\ _shutting_down /\ runPc = "waiting"
    /\ \A w \in {"idle_watcher", "_mpv_watcher", "shutdown_watcher"} : task[w] = "done"
    /\ task["_keyboard_exit_watcher"] = "monitor"
    /\ watch["kbd"] = "reading" /\ "kbd" \in keyboards

----------------------------------------------------------------------------
(* Claims on the idle watcher, under SpecIdle *)

\* a step that is one poll of idle_watcher: it begins with the idle query
IdlePoll == calls' # <<>> /\ calls'[1] = is_idle

\* C10: a poll that observes the player idle loads the idle screen exactly
\* when it is the first of a run of idle polls or its minute differs from the
\* minute of the last load, and the screen counts as showing; a poll that
\* observes it not idle loads nothing and clears the showing flag.
C10_IdleRefresh ==
    [][IdlePoll =>
         IF was_idle'
         THEN /\ (show_splash \in Issued(calls')) <=> (~was_idle \/ minute # shown_at)
              /\ splash_showing'
         ELSE /\ show_splash \notin Issued(calls')
              /\ ~splash_showing']_vars

\* an idle poll in the minute of the last load: nothing loaded
C10_Witness ==
    /\ was_idle /\ splash_showing
    /\ calls = <<is_idle>>
    /\ shown_at = minute

\* an idle poll in a later minute: the idle screen loaded again
C10_WitnessNewMinute ==
    /\ was_idle /\ splash_showing
    /\ calls = <<is_idle, show_splash>>
    /\ shown_at = minute /\ minute > 0 /\ last_minute = minute

\* a poll that found the player busy after the idle screen was shown
C10_WitnessNotIdle ==
    /\ ~was_idle /\ ~splash_showing
    /\ calls = <<is_idle>>
    /\ shown_at # -1

====
